---- MODULE Spec2Model ----
(***************************************************************************)
(* Model of the head-lag measurement core of the aggregator latency        *)
(* benchmark: the Defined.fi JWT token cache (GetDefinedJWTToken,          *)
(* InvalidateTokenCache), the reconnection supervisors of the WebSocket    *)
(* monitors and the lag computation of the stream clients.                 *)
(*                                                                         *)
(* Time of the token cache is counted in half hours (Hour == 2).  Time of  *)
(* the supervisors is counted in seconds, time of the lag computation in   *)
(* milliseconds.                                                           *)
(***************************************************************************)
EXTENDS Integers, Sequences, FiniteSets, TLC

\* ------------------------------------------------------------------------
\* Bounds of the model
\* ------------------------------------------------------------------------
NumTasks == 2          \* goroutines that use the token cache
MaxExchanges == 2      \* exchange requests sent in a run
MaxNow == 4            \* last instant of the wall clock (half hours)

\* ------------------------------------------------------------------------
\* Program constants
\* ------------------------------------------------------------------------
Hour == 2                        \* time.Hour, in half hours
SafetyMargin == 1 * Hour         \* expiresAt.Add(-1*time.Hour)
DefaultValidity == 24 * Hour     \* time.Now().Add(24 * time.Hour)
ZeroTime == 0                    \* time.Time{}

VARIABLES
  cache,      \* globalTokenCache: token, expiresAt, lastRefresh
  tokOwner,   \* history: serial of the exchange that wrote token (0 = none)
  expOwner,   \* history: serial of the exchange that wrote expiresAt
  mu,         \* globalTokenCache.mu: writer (0 = none) and set of readers
  pc,         \* position of every goroutine in GetDefinedJWTToken / Invalidate
  loc,        \* locals of the running call: token, expiresAt, request serial
  result,     \* what the last call of every goroutine returned
  snap,       \* history: cache as it was when the goroutine took mu.Lock
  now,        \* wall clock of the token cache (half hours)
  exchanges,  \* number of exchange requests sent to the issuing service
  invFloor,   \* history: value of exchanges when the last invalidate returned
  monitor,    \* the reconnection supervisor that is followed
  hasKey,     \* whether the credential the supervisor checks is configured
  stopped,    \* stopChan is closed
  spc,        \* position of the supervisor in its loop
  reconnectDelay, \* reconnectDelay of the supervisor (seconds)
  sleepFor,   \* duration handed to time.After by the sleep in progress
  fails,      \* history: connection attempts that returned an error
  lastErr,    \* err of the last failed connection attempt
  transientOnly, \* history: every failed attempt so far was a transient one
  subIdx,     \* subscription messages of this connection handled so far
  subMissed,  \* history: subscription sends of this connection that failed
  authDelays, \* history: the delays slept after an authentication failure
  frameStages, \* history: the stages in which a data frame was handled
  conns,      \* connections of the followed client that are open
  clock,      \* wall clock of the stream clients (milliseconds)
  frames,     \* number of events the stream clients have handled
  seenTokens, \* seenTokens of the launchpad client
  sink,       \* history: the values set on the gauges of the metrics sink
  tokenQueue, \* tokenQueue: the buffered channel of TokenToCheck
  checked,    \* history: the requests handed to checkTokenMetadata, in order
  stdout,     \* the "Queue full, skipping token" lines: the address of each
  queued,     \* history: every call of QueueTokenForMetadataCheck
  last,       \* history: the frame handled last
  panicked,   \* a goroutine has panicked: the process is gone
  worker,     \* runMetadataCoverageMonitor: its position and its request
  checks,     \* history: the provider calls of checkTokenMetadata, in order
  payload,    \* per client: the frame its read loop handles, event by event
  link,       \* a connection attempt of a client and its helper goroutines
  procs       \* main: stopChan, the wait group and the goroutines it counts

tokenVars == <<cache, tokOwner, expOwner, mu, pc, loc, result, snap, now,
               exchanges, invFloor>>

supVars == <<monitor, hasKey, stopped, spc, reconnectDelay, sleepFor, fails,
             lastErr, transientOnly, subIdx, subMissed, authDelays,
            frameStages, conns>>

lagVars == <<clock, frames, seenTokens, sink, tokenQueue, checked, stdout,
             queued, last, panicked, worker, checks, payload, link,
             procs>>

vars == <<tokenVars, supVars, lagVars>>

\* Goroutine 1 is the Codex head-lag monitor: connectAndMonitorCodex calls
\* GetDefinedJWTToken and runCodexHeadLagMonitor, the only caller of
\* InvalidateTokenCache, invalidates.  The other goroutines (the metadata
\* worker, the Codex REST monitor) only call GetDefinedJWTToken.
Tasks == 1..NumTasks

Invalidators == {1}

\* ------------------------------------------------------------------------
\* Tokens.  A token string is modelled by the serial of the exchange that
\* issued it (every issued token is a different string; the empty string
\* has serial 0), by its shape as decodeJWTExpiration sees it and by the
\* value of its exp claim (0 when the claim is missing).
\* ------------------------------------------------------------------------
EmptyToken == [id |-> 0, shape |-> "empty", exp |-> 0]

IssuedToken(serial, shape, exp) == [id |-> serial, shape |-> shape, exp |-> exp]

\* Shapes of a token string: "jwt" has three parts, a base64url payload and
\* a JSON object; the others fail one step of decodeJWTExpiration.
TokenShapes == {"jwt", "empty", "noparts", "badbase64", "badjson"}

\* decodeJWTExpiration: <<ok, expiry>>
decodeJWTExpiration(tok) ==
  IF tok.shape # "jwt" THEN [ok |-> FALSE, at |-> ZeroTime]
  ELSE IF tok.exp = 0 THEN [ok |-> FALSE, at |-> ZeroTime]
  ELSE [ok |-> TRUE, at |-> tok.exp]

EmptyCache == [token |-> EmptyToken, expiresAt |-> ZeroTime, lastRefresh |-> ZeroTime]

\* The condition of lines 561 and 573:
\* token != "" && time.Now().Before(expiresAt.Add(-1*time.Hour))
Fresh_NoMargin(c, t) == c.token.shape # "empty" /\ t < c.expiresAt

Fresh(c, t) == c.token.shape # "empty" /\ t < c.expiresAt - SafetyMargin

\* Responses of the issuing service as generateDefinedJWTToken classifies them
ExchangeErrors == {"request failed", "rate limited (429)",
                   "unexpected status 401", "unexpected status 500",
                   "failed to decode", "no token returned"}

\* Expiries the issuing service may embed in a token issued at time t
IssuedExpiries(t) == {0, t + 1, t + 2 * Hour}

\* Shapes of the tokens the issuing service is taken to return
IssuedShapes == {"jwt", "empty", "noparts"}

IssuableTokens(serial, t) ==
  {IssuedToken(serial, "jwt", e) : e \in IssuedExpiries(t)}
    \cup {IssuedToken(serial, s, 0) : s \in IssuedShapes \ {"jwt", "empty"}}
    \cup {EmptyToken : s \in IssuedShapes \cap {"empty"}}

\* What a call returned: (token, nil) or ("", err).  The token string is
\* recorded by its serial (0 = the empty string), a non-nil err by the kind
\* "error" (the error itself is loc.err until the call returns).  cold tells
\* that the call started before any exchange request had been sent.
NoResult == [kind |-> "none", token |-> 0, cold |-> FALSE]

\* Locals of a running call.  token, expiresAt and err are the variables of
\* GetDefinedJWTToken.  The others are history: seenToken and seenLeft record
\* what the last check of the cache read (whether a token was cached, and
\* the time left until its expiry); req is the serial of the exchange
\* request the call sent (0 = none); outcome is how the call ends; cold is
\* the value of exchanges = 0 when the call started.
NoLocals == [token |-> EmptyToken, expiresAt |-> ZeroTime, err |-> "", req |-> 0,
             outcome |-> "none", seenToken |-> FALSE, seenLeft |-> 0,
             cold |-> FALSE]

\* The token cache of a process that has just started
TokenIdle ==
  /\ cache = EmptyCache
  /\ tokOwner = 0
  /\ expOwner = 0
  /\ mu = [writer |-> 0, readers |-> {}]
  /\ pc = [t \in Tasks |-> "idle"]
  /\ loc = [t \in Tasks |-> NoLocals]
  /\ result = [t \in Tasks |-> NoResult]
  /\ snap = [t \in Tasks |-> EmptyCache]
  /\ now = ZeroTime + 1
  /\ exchanges = 0
  /\ invFloor = 0

\* A supervisor that has not been started
SupIdle ==
  /\ hasKey = TRUE
  /\ stopped = FALSE
  /\ spc = "start"
  /\ reconnectDelay = 0
  /\ sleepFor = 0
  /\ fails = 0
  /\ lastErr = ""
  /\ transientOnly = TRUE
  /\ subIdx = 0
  /\ subMissed = 0
  /\ authDelays = {}
  /\ frameStages = {}
  /\ conns = 0

\* Wall clock of the stream clients when the first frame arrives: five
\* minutes (in milliseconds) after the origin the event times are counted
\* from.
FirstReceipt == 300000

\* MetadataFields{}: the result of a provider check before it is filled in;
\* of the fields HasLogo stands for the four that are recorded
NoFields == [error |-> FALSE, hasLogo |-> FALSE]

\* No connection attempt is followed
NoLink == [client |-> "none", attempt |-> 0, main |-> "returned", subs |-> 0,
           helpers |-> {}, open |-> {}, writes |-> 0, crashed |-> FALSE]

\* main before it has started a goroutine
NotStarted == [main |-> "starting", stopped |-> FALSE, wg |-> {},
               at |-> [g \in {} |-> "none"], rounds |-> 0]

\* The clients whose read loop is followed event by event
OrderClients == {"codex", "gecko"}

\* The aggregator label a client records under
Aggregator(c) ==
  CASE c = "mobula" -> "mobula"
    [] c = "codex" -> "codex"
    [] c = "gecko" -> "geckoterminal"
    [] c = "launchpad" -> "codex-launchpad"
    [] OTHER -> "mobula-pulse"

\* The stream clients before any frame has arrived
LagIdle ==
  /\ clock = FirstReceipt
  /\ frames = 0
  /\ seenTokens = {}
  /\ sink = <<>>
  /\ tokenQueue = <<>>
  /\ checked = <<>>
  /\ stdout = <<>>
  /\ queued = {}
  /\ last = [client |-> "none", kind |-> "none", hash |-> FALSE,
             stamped |-> FALSE, lag |-> 0, key |-> "k1", first |-> FALSE,
             ponged |-> FALSE]
  /\ panicked = FALSE
  /\ worker = [at |-> "idle", token |-> [address |-> "", detectedAt |-> 0],
               since |-> 0, provider |-> "", result |-> NoFields,
               counted |-> FALSE, coverage |-> {}]
  /\ checks = <<>>
  /\ payload = [c \in OrderClients |->
                  [frame |-> 0, events |-> <<>>, next |-> 1, done |-> <<>>,
                   readAt |-> 0, parsed |-> FALSE, receiveTime |-> 0]]
  /\ link = NoLink
  /\ procs = NotStarted

InitToken ==
  /\ TokenIdle
  /\ monitor = "codex"
  /\ SupIdle
  /\ LagIdle

\* ------------------------------------------------------------------------
\* sync.RWMutex
\* ------------------------------------------------------------------------
CanRLock_Unguarded(m) == TRUE

CanRLock(m) == m.writer = 0

CanLock_NotExclusive(m) == m.readers = {}

CanLock_IgnoresReaders(m) == m.writer = 0

CanLock(m) == m.writer = 0 /\ m.readers = {}

\* ------------------------------------------------------------------------
\* GetDefinedJWTToken
\* ------------------------------------------------------------------------
\* The goroutines whose running call may still send an exchange request
BeforeExchange ==
  {u \in Tasks : pc[u] \in {"rlock", "rcheck", "r_ret", "r_unlock", "wlock", "wcheck"}}

\* A goroutine calls GetDefinedJWTToken.  A call starts only while the run's
\* budget of exchange requests covers it.
GetCall(t) ==
  /\ pc[t] \in {"idle", "done"}
  /\ exchanges + Cardinality(BeforeExchange) < MaxExchanges
  /\ pc' = [pc EXCEPT ![t] = "rlock"]
  /\ loc' = [loc EXCEPT ![t] = [NoLocals EXCEPT !.cold = (exchanges = 0)]]
  /\ UNCHANGED <<cache, tokOwner, expOwner, mu, result, snap, now, exchanges, invFloor>>
  /\ UNCHANGED <<supVars, lagVars>>

\* line 557: mu.RLock()
RLock(t) ==
  /\ pc[t] = "rlock"
  /\ CanRLock(mu)
  /\ mu' = [mu EXCEPT !.readers = @ \cup {t}]
  /\ pc' = [pc EXCEPT ![t] = "rcheck"]
  /\ UNCHANGED <<cache, tokOwner, expOwner, loc, result, snap, now, exchanges, invFloor>>
  /\ UNCHANGED <<supVars, lagVars>>

\* The locals after reading token and expiresAt for the check
Observed(t) ==
  [loc[t] EXCEPT !.seenToken = (cache.token.shape # "empty"),
                 !.seenLeft = cache.expiresAt - now]

\* lines 561-562: the check under the read lock
RCheck(t) ==
  /\ pc[t] = "rcheck"
  /\ IF Fresh(cache, now)
       THEN /\ pc' = [pc EXCEPT ![t] = "r_ret"]
            /\ loc' = [loc EXCEPT ![t] = [Observed(t) EXCEPT !.token = cache.token,
                                                             !.outcome = "cached"]]
       ELSE /\ pc' = [pc EXCEPT ![t] = "r_unlock"]
            /\ UNCHANGED loc
  /\ UNCHANGED <<cache, tokOwner, expOwner, mu, result, snap, now, exchanges, invFloor>>
  /\ UNCHANGED <<supVars, lagVars>>

\* lines 563-564: RUnlock, return token, nil
RReturn(t) ==
  /\ pc[t] = "r_ret"
  /\ mu' = [mu EXCEPT !.readers = @ \ {t}]
  /\ result' = [result EXCEPT ![t] =
       [kind |-> "token", token |-> loc[t].token.id, cold |-> loc[t].cold]]
  /\ loc' = [loc EXCEPT ![t] = NoLocals]
  /\ pc' = [pc EXCEPT ![t] = "done"]
  /\ UNCHANGED <<cache, tokOwner, expOwner, snap, now, exchanges, invFloor>>
  /\ UNCHANGED <<supVars, lagVars>>

\* line 566: RUnlock on the stale path
RUnlock(t) ==
  /\ pc[t] = "r_unlock"
  /\ mu' = [mu EXCEPT !.readers = @ \ {t}]
  /\ pc' = [pc EXCEPT ![t] = "wlock"]
  /\ UNCHANGED <<cache, tokOwner, expOwner, loc, result, snap, now, exchanges, invFloor>>
  /\ UNCHANGED <<supVars, lagVars>>

\* line 569: mu.Lock()
WLock(t) ==
  /\ pc[t] = "wlock"
  /\ CanLock(mu)
  /\ mu' = [mu EXCEPT !.writer = t]
  /\ snap' = [snap EXCEPT ![t] = cache]
  /\ pc' = [pc EXCEPT ![t] = "wcheck"]
  /\ UNCHANGED <<cache, tokOwner, expOwner, loc, result, now, exchanges, invFloor>>
  /\ UNCHANGED <<supVars, lagVars>>

\* The double check of line 573, made after mu.Lock()
StillFresh_NotChecked(c, t) == FALSE

StillFresh(c, t) == Fresh(c, t)

\* lines 573-578: the double check; a stale cache sends the exchange request
WCheck(t) ==
  /\ pc[t] = "wcheck"
  /\ IF StillFresh(cache, now)
       THEN /\ pc' = [pc EXCEPT ![t] = "ret"]
            /\ loc' = [loc EXCEPT ![t] = [Observed(t) EXCEPT !.token = cache.token,
                                                             !.outcome = "cached"]]
            /\ UNCHANGED exchanges
       ELSE /\ pc' = [pc EXCEPT ![t] = "exchange"]
            /\ exchanges' = exchanges + 1
            /\ loc' = [loc EXCEPT ![t] = [Observed(t) EXCEPT !.req = exchanges + 1]]
  /\ UNCHANGED <<cache, tokOwner, expOwner, mu, result, snap, now, invFloor>>
  /\ UNCHANGED <<supVars, lagVars>>

\* What the failing path of lines 579-581 leaves in the cache
CacheAfterFailure_Cleared(c) == [c EXCEPT !.token = EmptyToken, !.expiresAt = ZeroTime]

CacheAfterFailure(c) == c

\* lines 578-581 with generateDefinedJWTToken failing: return "", err
ExchangeFails(t) ==
  /\ pc[t] = "exchange"
  /\ \E e \in ExchangeErrors :
       loc' = [loc EXCEPT ![t].err = e, ![t].outcome = "error"]
  /\ cache' = CacheAfterFailure(cache)
  /\ pc' = [pc EXCEPT ![t] = "ret"]
  /\ UNCHANGED <<tokOwner, expOwner, mu, result, snap, now, exchanges, invFloor>>
  /\ UNCHANGED <<supVars, lagVars>>

\* Validity assumed when the expiry cannot be decoded (line 587)
FallbackExpiry_OneHour(t) == t + Hour

FallbackExpiry(t) == t + DefaultValidity

\* lines 578-588: generateDefinedJWTToken succeeds, the expiry is decoded
ExchangeSucceeds(t) ==
  /\ pc[t] = "exchange"
  /\ \E tok \in IssuableTokens(loc[t].req, now) :
       LET d == decodeJWTExpiration(tok)
       IN loc' = [loc EXCEPT ![t].token = tok,
                             ![t].expiresAt = IF d.ok THEN d.at ELSE FallbackExpiry(now)]
  /\ pc' = [pc EXCEPT ![t] = "w_token"]
  /\ UNCHANGED <<cache, tokOwner, expOwner, mu, result, snap, now, exchanges, invFloor>>
  /\ UNCHANGED <<supVars, lagVars>>

\* line 591
StoreToken(t) ==
  /\ pc[t] = "w_token"
  /\ cache' = [cache EXCEPT !.token = loc[t].token]
  /\ tokOwner' = loc[t].req
  /\ pc' = [pc EXCEPT ![t] = "w_expires"]
  /\ UNCHANGED <<expOwner, mu, loc, result, snap, now, exchanges, invFloor>>
  /\ UNCHANGED <<supVars, lagVars>>

\* line 592
StoreExpiresAt(t) ==
  /\ pc[t] = "w_expires"
  /\ cache' = [cache EXCEPT !.expiresAt = loc[t].expiresAt]
  /\ expOwner' = loc[t].req
  /\ pc' = [pc EXCEPT ![t] = "w_last"]
  /\ UNCHANGED <<tokOwner, mu, loc, result, snap, now, exchanges, invFloor>>
  /\ UNCHANGED <<supVars, lagVars>>

\* lines 593-599
StoreLastRefresh(t) ==
  /\ pc[t] = "w_last"
  /\ cache' = [cache EXCEPT !.lastRefresh = now]
  /\ loc' = [loc EXCEPT ![t].outcome = "fresh"]
  /\ pc' = [pc EXCEPT ![t] = "ret"]
  /\ UNCHANGED <<tokOwner, expOwner, mu, result, snap, now, exchanges, invFloor>>
  /\ UNCHANGED <<supVars, lagVars>>

\* line 570: the deferred mu.Unlock() runs when the function returns
Return(t) ==
  /\ pc[t] = "ret"
  /\ mu' = [mu EXCEPT !.writer = 0]
  /\ result' = [result EXCEPT ![t] =
       IF loc[t].outcome = "error"
         THEN [kind |-> "error", token |-> 0, cold |-> loc[t].cold]
         ELSE [kind |-> "token", token |-> loc[t].token.id, cold |-> loc[t].cold]]
  /\ pc' = [pc EXCEPT ![t] = "done"]
  /\ loc' = [loc EXCEPT ![t] = NoLocals]
  /\ snap' = [snap EXCEPT ![t] = EmptyCache]
  /\ UNCHANGED <<cache, tokOwner, expOwner, now, exchanges, invFloor>>
  /\ UNCHANGED <<supVars, lagVars>>

\* ------------------------------------------------------------------------
\* InvalidateTokenCache
\* ------------------------------------------------------------------------
InvalidateCall(t) ==
  /\ t \in Invalidators
  /\ pc[t] \in {"idle", "done"}
  /\ pc' = [pc EXCEPT ![t] = "ilock"]
  /\ UNCHANGED <<cache, tokOwner, expOwner, mu, loc, result, snap, now, exchanges, invFloor>>
  /\ UNCHANGED <<supVars, lagVars>>

\* session_scraper.go line 92: mu.Lock()
InvalidateLock(t) ==
  /\ pc[t] = "ilock"
  /\ CanLock(mu)
  /\ mu' = [mu EXCEPT !.writer = t]
  /\ snap' = [snap EXCEPT ![t] = cache]
  /\ pc' = [pc EXCEPT ![t] = "i_token"]
  /\ UNCHANGED <<cache, tokOwner, expOwner, loc, result, now, exchanges, invFloor>>
  /\ UNCHANGED <<supVars, lagVars>>

\* The token InvalidateTokenCache leaves in the cache (line 95)
InvalidatedToken_KeepFresh(c, t) == IF Fresh(c, t) THEN c.token ELSE EmptyToken

InvalidatedToken(c, t) == EmptyToken

\* session_scraper.go line 95
InvalidateToken(t) ==
  /\ pc[t] = "i_token"
  /\ cache' = [cache EXCEPT !.token = InvalidatedToken(cache, now)]
  /\ tokOwner' = 0
  /\ pc' = [pc EXCEPT ![t] = "i_expires"]
  /\ UNCHANGED <<expOwner, mu, loc, result, snap, now, exchanges, invFloor>>
  /\ UNCHANGED <<supVars, lagVars>>

\* The fields InvalidateTokenCache writes besides the token (line 96)
InvalidatedRest_TouchRefresh(c, t) == [c EXCEPT !.expiresAt = ZeroTime, !.lastRefresh = t]

InvalidatedRest(c, t) == [c EXCEPT !.expiresAt = ZeroTime]

\* session_scraper.go line 96
InvalidateExpiresAt(t) ==
  /\ pc[t] = "i_expires"
  /\ cache' = InvalidatedRest(cache, now)
  /\ expOwner' = 0
  /\ pc' = [pc EXCEPT ![t] = "i_ret"]
  /\ UNCHANGED <<tokOwner, mu, loc, result, snap, now, exchanges, invFloor>>
  /\ UNCHANGED <<supVars, lagVars>>

\* session_scraper.go line 93: the deferred mu.Unlock()
InvalidateReturn(t) ==
  /\ pc[t] = "i_ret"
  /\ mu' = [mu EXCEPT !.writer = 0]
  /\ invFloor' = exchanges
  /\ result' = [result EXCEPT ![t] = [NoResult EXCEPT !.kind = "invalidated"]]
  /\ pc' = [pc EXCEPT ![t] = "done"]
  /\ snap' = [snap EXCEPT ![t] = EmptyCache]
  /\ UNCHANGED <<cache, tokOwner, expOwner, loc, now, exchanges>>
  /\ UNCHANGED <<supVars, lagVars>>

\* ------------------------------------------------------------------------
\* The wall clock.  The stores of lines 587-593 are consecutive statements:
\* the clock (half hours) does not advance between them.
\* ------------------------------------------------------------------------
TickSteps == {3}

Tick ==
  /\ \A t \in Tasks : pc[t] \notin {"w_token", "w_expires", "w_last"}
  /\ \E d \in TickSteps : now + d <= MaxNow /\ now' = now + d
  /\ UNCHANGED <<cache, tokOwner, expOwner, mu, pc, loc, result, snap, exchanges, invFloor>>
  /\ UNCHANGED <<supVars, lagVars>>

NextToken ==
  \/ \E t \in Tasks : GetCall(t)
  \/ \E t \in Tasks : RLock(t)
  \/ \E t \in Tasks : RCheck(t)
  \/ \E t \in Tasks : RReturn(t)
  \/ \E t \in Tasks : RUnlock(t)
  \/ \E t \in Tasks : WLock(t)
  \/ \E t \in Tasks : WCheck(t)
  \/ \E t \in Tasks : ExchangeFails(t)
  \/ \E t \in Tasks : ExchangeSucceeds(t)
  \/ \E t \in Tasks : StoreToken(t)
  \/ \E t \in Tasks : StoreExpiresAt(t)
  \/ \E t \in Tasks : StoreLastRefresh(t)
  \/ \E t \in Tasks : Return(t)
  \/ \E t \in Tasks : InvalidateCall(t)
  \/ \E t \in Tasks : InvalidateLock(t)
  \/ \E t \in Tasks : InvalidateToken(t)
  \/ \E t \in Tasks : InvalidateExpiresAt(t)
  \/ \E t \in Tasks : InvalidateReturn(t)
  \/ Tick

SpecToken == InitToken /\ [][NextToken]_vars

\* ========================================================================
\* Reconnection supervisors: runMobulaHeadLagMonitor, runCodexHeadLagMonitor,
\* runGeckoTerminalHeadLagMonitor, runCodexLaunchpadMonitor,
\* runMobulaPulseMonitor and runCodexMonitor.  Each runs in a goroutine of
\* its own and shares with the others only stopChan (which it reads) and,
\* for the Codex head-lag monitor, the token cache; one supervisor is
\* followed at a time.  Durations are in seconds.
\* ========================================================================
MaxFailures == 5       \* failed connection attempts that are counted
NumPools == 2          \* instruments a client subscribes to one by one

Supervisors == {"mobula", "codex", "gecko", "launchpad", "pulse", "codexpool"}

\* The supervisors whose loop is select { stopChan / default:
\* connectAndMonitor...() } followed by select { stopChan / time.After }
SelectSupervisors == {"mobula", "codex", "gecko", "launchpad"}

\* reconnectDelay := 5 * time.Second (30 * time.Second for Codex head-lag)
BaseDelay(s) == IF s = "codex" THEN 30 ELSE 5

\* maxReconnectDelay := 60 * time.Second (5 * time.Minute for Codex head-lag)
MaxDelay(s) == IF s = "codex" THEN 5 * 60 ELSE 60

\* reconnectDelay = 2 * time.Minute
RateLimitDelay == 2 * 60

\* reconnectDelay = 5 * time.Second, after a connection returned nil
CleanDelay == 5

\* if config.MobulaAPIKey == "" / if config.CodexAPIKey == ""
ChecksKey(s) == s \in {"mobula", "launchpad", "pulse", "codexpool"}

\* Subscription messages a client sends on a new connection: one per pool
\* for Codex and GeckoTerminal, one for all pools otherwise
Subscriptions(s) == IF s \in {"codex", "gecko", "codexpool"} THEN NumPools ELSE 1

\* A failed subscription send makes the attempt fail; subscribeToGeckoSwapChannel
\* logs the error and returns nothing
AbortsOnSubscribeError_Always(s) == TRUE

AbortsOnSubscribeError(s) == s # "gecko"

\* The receive loop selects on stopChan; handlePulseV2Messages and
\* handleCodexWebSocketMessages do not get stopChan
WatchesStop(s) == s \in SelectSupervisors

\* The sleep between attempts is a select on stopChan and time.After;
\* runMobulaPulseMonitor and runCodexMonitor call time.Sleep
CancellableSleep(s) == s \in SelectSupervisors

\* reconnectDelay = 5 * time.Second before the receive loop is entered
ResetsOnSuccess(s) == s \in {"pulse", "codexpool"}

\* Errors of a connection attempt before the subscriptions are sent.  An
\* error of GetDefinedJWTToken is wrapped by "failed to get JWT token: %w"
\* and is named here by the wrapped error.
ConnectErrors(s) ==
  CASE s = "launchpad" -> {"dial failed", "dial failed (status 401)",
                           "dial failed (status 429)"}
    [] OTHER -> {"dial failed"}

\* The clients of the graphql-transport-ws streams send connection_init and
\* read one frame, which has to be connection_ack
HasHandshake(s) == s \in {"codex", "launchpad", "codexpool"}

\* conn.SetReadDeadline(time.Now().Add(10 * time.Second)) before the read of
\* the acknowledgment; connectCodexWebSocket sets no deadline
AckDeadline(s) == s \in {"codex", "launchpad"}

\* Errors of the handshake that the server's answer causes: the frame read
\* is not connection_ack (the text of the frame is part of the error)
HandshakeErrors(s) ==
  IF s = "codex" THEN {"unexpected ack", "unexpected ack: authentication"}
                 ELSE {"unexpected ack"}

\* Errors the receive loop returns
StreamErrors(s) ==
  IF s = "gecko" THEN {"connection closed by server"} ELSE {"read failed"}

\* strings.Contains(err.Error(), "rate limited (429)")
ContainsRateLimited(e) == e = "rate limited (429)"

\* strings.Contains(err.Error(), "authentication")
ContainsAuthentication(e) == e = "unexpected ack: authentication"

\* strings.Contains(err.Error(), "401")
Contains401(e) == e \in {"unexpected status 401", "dial failed (status 401)"}

InitBackoff ==
  /\ TokenIdle
  /\ monitor \in Supervisors
  /\ hasKey \in BOOLEAN
  /\ stopped = FALSE
  /\ spc = "start"
  /\ reconnectDelay = 0
  /\ sleepFor = 0
  /\ fails = 0
  /\ lastErr = ""
  /\ transientOnly = TRUE
  /\ subIdx = 0
  /\ subMissed = 0
  /\ authDelays = {}
  /\ frameStages = {}
  /\ conns = 0
  /\ LagIdle

\* The supervisor starts: a missing credential makes it return at once,
\* otherwise reconnectDelay takes the base value.
SupStart ==
  /\ spc = "start"
  /\ IF ChecksKey(monitor) /\ ~hasKey
       THEN spc' = "skipped" /\ UNCHANGED reconnectDelay
       ELSE spc' = "top" /\ reconnectDelay' = BaseDelay(monitor)
  /\ UNCHANGED <<monitor, hasKey, stopped, sleepFor, fails, lastErr,
                 transientOnly, subIdx, subMissed, authDelays,
                 frameStages, conns>>
  /\ UNCHANGED <<tokenVars, lagVars>>

\* select { case <-stopChan: return; default: a connection attempt }
\* select { case <-stopChan: return; default: ... }: the default branch
\* is taken only when stopChan is open
LoopTop_IgnoresStop(s, closed) == IF s = "codex" THEN "token" ELSE "connecting"

LoopTop(s, closed) ==
  IF closed THEN "stopped"
            ELSE IF s = "codex" THEN "token" ELSE "connecting"

SupLoop ==
  /\ spc = "top"
  /\ spc' = LoopTop(monitor, stopped)
  /\ subIdx' = 0
  /\ subMissed' = 0
  /\ UNCHANGED <<monitor, hasKey, stopped, reconnectDelay, sleepFor, fails,
                 lastErr, transientOnly, authDelays,
                 frameStages, conns>>
  /\ UNCHANGED <<tokenVars, lagVars>>

\* Errors that the supervisors' taxonomy does not single out
Transient(e) ==
  /\ ~ContainsRateLimited(e)
  /\ ~ContainsAuthentication(e)
  /\ ~Contains401(e)
  /\ e # "dial failed (status 429)"

\* The cache after InvalidateTokenCache has run
InvalidatedCache(c, t) ==
  InvalidatedRest([c EXCEPT !.token = InvalidatedToken(c, t)], t)

\* The Codex supervisor invalidates the token cache on this error
InvalidatesOn_Never(s, e) == FALSE

InvalidatesOn(s, e) ==
  /\ s = "codex"
  /\ ~ContainsRateLimited(e)
  /\ ContainsAuthentication(e) \/ Contains401(e)

\* reconnectDelay when the sleep starts: the Codex supervisor overwrites it
\* on a rate limit error
DelayOnError_Unchanged(s, d, e) == d

DelayOnError(s, d, e) ==
  IF s = "codex" /\ ContainsRateLimited(e) THEN RateLimitDelay ELSE d

\* The counter of failed attempts stops at MaxFailures
CountFailure(n) == IF n < MaxFailures THEN n + 1 ELSE n

\* The open connections after the attempt has returned from a stage: the
\* connection, once dialed, is closed by the deferred conn.Close() or by
\* the conn.Close() of the branch
AfterExit_LeaksOnHandshake(stage, n) ==
  IF stage \in {"token", "connecting", "handshaking"} THEN n ELSE n - 1

AfterExit(stage, n) ==
  IF stage \in {"token", "connecting"} THEN n ELSE n - 1

\* The attempt failed: the error is classified (Codex head-lag) and the
\* sleep starts.  c is the token cache the failed attempt left.
AttemptFailed(e, c) ==
  /\ lastErr' = e
  /\ fails' = CountFailure(fails)
  /\ transientOnly' = (transientOnly /\ Transient(e))
  /\ reconnectDelay' = DelayOnError(monitor, reconnectDelay, e)
  /\ sleepFor' = reconnectDelay'
  /\ IF InvalidatesOn(monitor, e)
       THEN /\ cache' = InvalidatedCache(c, now)
            /\ tokOwner' = 0
            /\ expOwner' = 0
            /\ invFloor' = exchanges'
       ELSE /\ cache' = c
            /\ UNCHANGED <<tokOwner, expOwner, invFloor>>
  /\ authDelays' = IF monitor = "codex"
                      /\ (ContainsAuthentication(e) \/ Contains401(e))
                     THEN authDelays \cup {sleepFor'}
                     ELSE authDelays
  /\ conns' = AfterExit(spc, conns)
  /\ spc' = "sleeping"
  /\ UNCHANGED <<monitor, hasKey, stopped, subIdx, subMissed, frameStages>>
  /\ UNCHANGED <<mu, pc, loc, result, snap, now, lagVars>>

\* The expiry GetDefinedJWTToken caches with a token
TokenExpiry(tok, t) ==
  LET d == decodeJWTExpiration(tok)
  IN IF d.ok THEN d.at ELSE FallbackExpiry(t)

\* connectAndMonitorCodex, line 305: GetDefinedJWTToken answers from the
\* cache
CodexTokenCached ==
  /\ spc = "token"
  /\ Fresh(cache, now)
  /\ spc' = "connecting"
  /\ UNCHANGED <<monitor, hasKey, stopped, reconnectDelay, sleepFor, fails,
                 lastErr, transientOnly, subIdx, subMissed, authDelays,
                 frameStages, conns>>
  /\ UNCHANGED <<tokenVars, lagVars>>

\* line 305: GetDefinedJWTToken exchanges and caches a new token
CodexTokenExchanged ==
  /\ spc = "token"
  /\ ~Fresh(cache, now)
  /\ exchanges < MaxExchanges
  /\ exchanges' = exchanges + 1
  /\ \E tok \in IssuableTokens(exchanges + 1, now) :
       cache' = [token |-> tok, expiresAt |-> TokenExpiry(tok, now),
                 lastRefresh |-> now]
  /\ tokOwner' = exchanges + 1
  /\ expOwner' = exchanges + 1
  /\ spc' = "connecting"
  /\ UNCHANGED <<monitor, hasKey, stopped, reconnectDelay, sleepFor, fails,
                 lastErr, transientOnly, subIdx, subMissed, authDelays,
                 frameStages, conns>>
  /\ UNCHANGED <<mu, pc, loc, result, snap, now, invFloor, lagVars>>

\* lines 305-307: the exchange fails, connectAndMonitorCodex returns the
\* error and the supervisor handles it.  The counter of exchange requests
\* stops at MaxExchanges.
CodexTokenFails ==
  /\ spc = "token"
  /\ ~Fresh(cache, now)
  /\ exchanges' = IF exchanges < MaxExchanges THEN exchanges + 1 ELSE exchanges
  /\ \E e \in ExchangeErrors : AttemptFailed(e, CacheAfterFailure(cache))

\* dial or handshake fails
ConnectFails ==
  /\ spc = "connecting"
  /\ UNCHANGED exchanges
  /\ \E e \in ConnectErrors(monitor) : AttemptFailed(e, cache)

\* the connection is established: connection_init is sent where the protocol
\* has a handshake, and the subscriptions are sent next where it has none
Dialed ==
  /\ spc = "connecting"
  /\ spc' = IF HasHandshake(monitor) THEN "handshaking" ELSE "subscribing"
  /\ conns' = conns + 1
  /\ UNCHANGED <<monitor, hasKey, stopped, reconnectDelay, sleepFor, fails,
                 lastErr, transientOnly, subIdx, subMissed, authDelays,
                 frameStages>>
  /\ UNCHANGED <<tokenVars, lagVars>>

\* the frame read after connection_init is connection_ack
HandshakeAcked ==
  /\ spc = "handshaking"
  /\ spc' = "subscribing"
  /\ UNCHANGED <<monitor, hasKey, stopped, reconnectDelay, sleepFor, fails,
                 lastErr, transientOnly, subIdx, subMissed, authDelays,
                 frameStages, conns>>
  /\ UNCHANGED <<tokenVars, lagVars>>

\* the frame read after connection_init is something else
HandshakeFails ==
  /\ spc = "handshaking"
  /\ UNCHANGED exchanges
  /\ \E e \in HandshakeErrors(monitor) : AttemptFailed(e, cache)

\* no frame within the read deadline: "ack read failed"
HandshakeTimesOut ==
  /\ spc = "handshaking"
  /\ AckDeadline(monitor)
  /\ UNCHANGED exchanges
  /\ AttemptFailed("ack read failed", cache)

\* The reader goroutine of connectAndMonitorGecko is started before the
\* subscriptions are sent and hands every frame to handleGeckoMessage; the
\* other clients read in the loop that follows the subscriptions.  A data
\* frame comes for a channel that a subscription has been sent for.
ReadsWhileSubscribing(s) == s = "gecko"

DataFrameHandled ==
  /\ \/ spc = "streaming"
     \/ /\ spc = "subscribing"
        /\ ReadsWhileSubscribing(monitor)
        /\ subIdx > subMissed
  /\ spc \notin frameStages
  /\ frameStages' = frameStages \cup {spc}
  /\ UNCHANGED <<monitor, hasKey, stopped, spc, reconnectDelay, sleepFor, fails,
                 lastErr, transientOnly, subIdx, subMissed, authDelays,
                 conns>>
  /\ UNCHANGED <<tokenVars, lagVars>>

\* conn.WriteJSON(subscribeMsg) succeeds
SubscribeSent ==
  /\ spc = "subscribing"
  /\ subIdx < Subscriptions(monitor)
  /\ subIdx' = subIdx + 1
  /\ UNCHANGED <<monitor, hasKey, stopped, spc, reconnectDelay, sleepFor, fails,
                 lastErr, transientOnly, subMissed, authDelays,
                 frameStages, conns>>
  /\ UNCHANGED <<tokenVars, lagVars>>

\* conn.WriteJSON(subscribeMsg) fails: the attempt is given up
SubscribeAborts ==
  /\ spc = "subscribing"
  /\ subIdx < Subscriptions(monitor)
  /\ AbortsOnSubscribeError(monitor)
  /\ UNCHANGED exchanges
  /\ AttemptFailed("subscribe failed", cache)

\* subscribeToGeckoSwapChannel: the failed send is logged, the loop goes on
\* with the next pool
SubscribeSkipped ==
  /\ spc = "subscribing"
  /\ subIdx < Subscriptions(monitor)
  /\ ~AbortsOnSubscribeError(monitor)
  /\ subIdx' = subIdx + 1
  /\ subMissed' = subMissed + 1
  /\ UNCHANGED <<monitor, hasKey, stopped, spc, reconnectDelay, sleepFor, fails,
                 lastErr, transientOnly, authDelays,
                 frameStages, conns>>
  /\ UNCHANGED <<tokenVars, lagVars>>

\* reconnectDelay when the receive loop is entered
DelayOnSuccess(s, d) == IF ResetsOnSuccess(s) THEN BaseDelay(s) ELSE d

\* the subscription loop is over: the receive loop starts
Connected ==
  /\ spc = "subscribing"
  /\ subIdx = Subscriptions(monitor)
  /\ spc' = "streaming"
  /\ reconnectDelay' = DelayOnSuccess(monitor, reconnectDelay)
  /\ UNCHANGED <<monitor, hasKey, stopped, sleepFor, fails, lastErr,
                 transientOnly, subIdx, subMissed, authDelays,
                 frameStages, conns>>
  /\ UNCHANGED <<tokenVars, lagVars>>

\* the receive loop ends with an error
StreamFails ==
  /\ spc = "streaming"
  /\ UNCHANGED exchanges
  /\ \E e \in StreamErrors(monitor) : AttemptFailed(e, cache)

\* the receive loop sees stopChan closed and returns nil: the supervisor
\* sets reconnectDelay to five seconds
StreamStops ==
  /\ spc = "streaming"
  /\ stopped
  /\ WatchesStop(monitor)
  /\ reconnectDelay' = CleanDelay
  /\ conns' = AfterExit(spc, conns)
  /\ spc' = "top"
  /\ UNCHANGED <<monitor, hasKey, stopped, sleepFor, fails, lastErr,
                 transientOnly, subIdx, subMissed, authDelays,
                 frameStages>>
  /\ UNCHANGED <<tokenVars, lagVars>>

\* reconnectDelay * 2, capped
NextDelay_Uncapped(s, d) == d * 2

NextDelay(s, d) == IF d * 2 > MaxDelay(s) THEN MaxDelay(s) ELSE d * 2

\* reconnectDelay after a sleep that ran to its end: runMobulaPulseMonitor
\* and runCodexMonitor do not double it after a lost connection
DelayAfterSleep_Reset(s, d, e) == CleanDelay

DelayAfterSleep(s, d, e) ==
  IF ResetsOnSuccess(s) /\ e \in StreamErrors(s) THEN d ELSE NextDelay(s, d)

\* the sleep runs to its end
SleepEnds ==
  /\ spc = "sleeping"
  /\ reconnectDelay' = DelayAfterSleep(monitor, reconnectDelay, lastErr)
  /\ spc' = "top"
  /\ UNCHANGED <<monitor, hasKey, stopped, sleepFor, fails, lastErr,
                 transientOnly, subIdx, subMissed, authDelays,
                 frameStages, conns>>
  /\ UNCHANGED <<tokenVars, lagVars>>

\* case <-stopChan: return, during the sleep
SleepCancelled ==
  /\ spc = "sleeping"
  /\ stopped
  /\ CancellableSleep(monitor)
  /\ spc' = "stopped"
  /\ UNCHANGED <<monitor, hasKey, stopped, reconnectDelay, sleepFor, fails,
                 lastErr, transientOnly, subIdx, subMissed, authDelays,
                 frameStages, conns>>
  /\ UNCHANGED <<tokenVars, lagVars>>

\* main.go line 99: close(stopChan)
Stop ==
  /\ ~stopped
  /\ stopped' = TRUE
  /\ UNCHANGED <<monitor, hasKey, spc, reconnectDelay, sleepFor, fails, lastErr,
                 transientOnly, subIdx, subMissed, authDelays,
                 frameStages, conns>>
  /\ UNCHANGED <<tokenVars, lagVars>>

NextBackoff ==
  \/ SupStart
  \/ SupLoop
  \/ CodexTokenCached
  \/ CodexTokenExchanged
  \/ CodexTokenFails
  \/ ConnectFails
  \/ Dialed
  \/ HandshakeAcked
  \/ HandshakeFails
  \/ HandshakeTimesOut
  \/ DataFrameHandled
  \/ SubscribeSent
  \/ SubscribeAborts
  \/ SubscribeSkipped
  \/ Connected
  \/ StreamFails
  \/ StreamStops
  \/ SleepEnds
  \/ SleepCancelled
  \/ Stop

SpecBackoff == InitBackoff /\ [][NextBackoff]_vars

\* ========================================================================
\* Lag computation of the stream clients: the receive loops of
\* connectAndMonitorMobula, connectAndMonitorCodex, handleGeckoDataMessage,
\* connectAndMonitorCodexLaunchpad and handlePulseV2Messages, with the
\* recorders of the metrics sink they call.  Times are in milliseconds,
\* counted from an origin five minutes before the first frame arrives.
\* ========================================================================
MaxFrames == 2         \* events handled in a run

Clients == {"mobula", "codex", "gecko", "launchpad", "pulse"}

\* time.UnixMilli(ts) for Mobula and GeckoTerminal, time.Unix(ts, 0) for the
\* Codex streams: milliseconds per unit of the event's timestamp
UnitMs(c) == IF c \in {"codex", "launchpad"} THEN 1000 ELSE 1

\* codexMaxLaunchpadLagMs
codexMaxLaunchpadLagMs == 120000

\* The bounds of RecordPoolDiscoveryLatency: latencyMs < 0 || latencyMs > 120000
MinLatencyMs == 0

MaxLatencyMs == 120000

\* len(seenTokens) > 10000
SeenLimit == 10000

\* (network, token address) keys of the launchpad events
TokenKeys == {"k1", "k2", "0x"}

\* len(token.Address): "0x" stands for an address cut short, the other keys
\* for full addresses
AddressLen(k) == IF k = "0x" THEN 2 ELSE 42

\* token.Address[:16]
AddressPrefix == 16

\* Lags (receipt - event time) the events of a run are sent with
LagSamples == {-5000, -1, 0, 150, 500, 120000, 120001}

\* Timestamps, in the client's unit, an event received at time t may carry
EventStamps(c, t) == {(t - l) \div UnitMs(c) : l \in LagSamples}

\* Events a client may receive at time t: whether the transaction hash is
\* present, whether the timestamp is present (an absent one decodes to 0, or
\* to the empty string for Pulse), the timestamp and the token key.
Events(c, t) ==
  {[hash |-> h, stamped |-> TRUE, ts |-> s, key |-> k] :
     h \in BOOLEAN, s \in EventStamps(c, t),
     k \in IF c \in {"launchpad", "pulse"} THEN TokenKeys ELSE {"k1"}}
  \cup
  {[hash |-> TRUE, stamped |-> FALSE, ts |-> 0, key |-> "k1"]}

InitLag ==
  /\ TokenIdle
  /\ monitor = "codex"
  /\ SupIdle
  /\ LagIdle

\* receiveTime.Sub(onChainTime).Milliseconds()
LagMs(c, t, ts) == t - ts * UnitMs(c)

\* RecordHeadLag sets the gauges of the aggregator.  lag is history: the lag
\* the client computed.
RecordHeadLag_Seconds(snk, aggregator, lagMs, lag) ==
  Append(snk, [gauge |-> "head_lag", aggregator |-> aggregator,
               value |-> lagMs \div 1000, lag |-> lag])

RecordHeadLag(snk, aggregator, lagMs, lag) ==
  Append(snk, [gauge |-> "head_lag", aggregator |-> aggregator,
               value |-> lagMs, lag |-> lag])

\* RecordPoolDiscoveryLatency drops a latency outside of its bounds
RecordPoolDiscoveryLatency_Unfiltered(snk, aggregator, latencyMs, lag) ==
  Append(snk, [gauge |-> "pool_discovery", aggregator |-> aggregator,
               value |-> latencyMs, lag |-> lag])

RecordPoolDiscoveryLatency(snk, aggregator, latencyMs, lag) ==
  IF latencyMs < MinLatencyMs \/ latencyMs > MaxLatencyMs
    THEN snk
    ELSE Append(snk, [gauge |-> "pool_discovery", aggregator |-> aggregator,
                      value |-> latencyMs, lag |-> lag])

\* The next frame arrives later
FrameGap == 500

Received ==
  /\ ~panicked
  /\ frames < MaxFrames
  /\ frames' = frames + 1
  /\ clock' = clock + FrameGap

\* cap(tokenQueue): make(chan TokenToCheck, 500), scaled down
QueueCapacity == 1

\* TokenToCheck{Address, ChainID, Symbol, Name, DetectedAt}: the address and
\* the receipt instant
TokenToCheck(address, receiveTime) ==
  [address |-> address, detectedAt |-> receiveTime]

\* select { case tokenQueue <- token: default: }, the channel after the call
QueueTokenForMetadataCheck_DropsOldest(q, token) ==
  IF Len(q) < QueueCapacity THEN Append(q, token)
                            ELSE Append(Tail(q), token)

QueueTokenForMetadataCheck(q, token) ==
  IF Len(q) < QueueCapacity THEN Append(q, token) ELSE q

\* the default branch prints "[METADATA] Queue full, skipping token: <address>"
QueueFullLine(q, out, token) ==
  IF Len(q) < QueueCapacity THEN out ELSE Append(out, token.address)

\* A handler that calls QueueTokenForMetadataCheck.  queued is history: the
\* caller and the request.
Enqueues(c, token) ==
  /\ tokenQueue' = QueueTokenForMetadataCheck(tokenQueue, token)
  /\ stdout' = QueueFullLine(tokenQueue, stdout, token)
  /\ queued' = queued \cup {[by |-> c, token |-> token]}

\* A handler that does not reach the call
NoEnqueue == UNCHANGED <<tokenQueue, stdout, queued>>

\* history: the frame handled, the lag computed from it and whether its
\* instrument is new to the client.  The head-lag clients take swaps and
\* have no notion of a new instrument.
Frame(c, ev, first) ==
  [client |-> c, kind |-> "data", hash |-> ev.hash,
   stamped |-> ev.stamped /\ ev.ts # 0, lag |-> LagMs(c, clock, ev.ts),
   key |-> ev.key, first |-> first, ponged |-> FALSE]

\* connectAndMonitorMobula, lines 184-204
HandleMobula ==
  /\ Received
  /\ \E ev \in Events("mobula", clock) :
       /\ sink' = IF ~ev.hash \/ ev.ts = 0
                    THEN sink
                    ELSE RecordHeadLag(sink, "mobula",
                                       LagMs("mobula", clock, ev.ts),
                                       LagMs("mobula", clock, ev.ts))
       /\ last' = Frame("mobula", ev, FALSE)
  /\ NoEnqueue
  /\ UNCHANGED <<seenTokens, checked, panicked, worker,
                 checks>>
  /\ UNCHANGED <<tokenVars, supVars, payload, link, procs>>

\* connectAndMonitorCodex, lines 416-431
HandleCodex ==
  /\ Received
  /\ \E ev \in Events("codex", clock) :
       /\ sink' = IF ~ev.hash
                    THEN sink
                    ELSE RecordHeadLag(sink, "codex",
                                       LagMs("codex", clock, ev.ts),
                                       LagMs("codex", clock, ev.ts))
       /\ last' = Frame("codex", ev, FALSE)
  /\ NoEnqueue
  /\ UNCHANGED <<seenTokens, checked, panicked, worker,
                 checks>>
  /\ UNCHANGED <<tokenVars, supVars, payload, link, procs>>

\* handleGeckoDataMessage, lines 237-244
HandleGecko ==
  /\ Received
  /\ \E ev \in Events("gecko", clock) :
       /\ sink' = RecordHeadLag(sink, "geckoterminal",
                                LagMs("gecko", clock, ev.ts),
                                LagMs("gecko", clock, ev.ts))
       /\ last' = Frame("gecko", ev, FALSE)
  /\ NoEnqueue
  /\ UNCHANGED <<seenTokens, checked, panicked, worker,
                 checks>>
  /\ UNCHANGED <<tokenVars, supVars, payload, link, procs>>

\* metricLagMs: the absolute value of a negative lag
MetricLagMs(lag) == IF lag < 0 THEN -lag ELSE lag

\* seenTokens[tokenKey] = true, which comes before the test of CreatedAt
MarkSeen_WhenValid(seen, key, valid) == IF valid THEN seen \cup {key} ELSE seen

MarkSeen(seen, key, valid) == seen \cup {key}

\* connectAndMonitorCodexLaunchpad, lines 193-247: an event already seen, one
\* without a creation time and one that is too old are skipped before the
\* metric and the queue
HandleLaunchpad ==
  /\ Received
  /\ \E ev \in Events("launchpad", clock) :
       LET lag == LagMs("launchpad", clock, ev.ts)
           seen == MarkSeen(seenTokens, ev.key, ev.ts # 0)
           skipped == \/ ev.key \in seenTokens
                      \/ ev.ts = 0
                      \/ lag > codexMaxLaunchpadLagMs
       IN /\ sink' = IF skipped
                       THEN sink
                       ELSE RecordPoolDiscoveryLatency(sink, "codex-launchpad",
                                                       MetricLagMs(lag), lag)
          /\ IF skipped
               THEN NoEnqueue
               ELSE Enqueues("launchpad", TokenToCheck(ev.key, clock))
          /\ seenTokens' = IF Cardinality(seen) > SeenLimit THEN {} ELSE seen
          /\ last' = Frame("launchpad", ev, ev.key \notin seenTokens)
  /\ UNCHANGED <<checked, panicked, worker,
                 checks>>
  /\ UNCHANGED <<tokenVars, supVars, payload, link, procs>>

\* seenTokens := make(map[string]bool): every connection of the launchpad
\* client starts with an empty map
LaunchpadReconnects ==
  /\ ~panicked
  /\ seenTokens # {}
  /\ seenTokens' = {}
  /\ UNCHANGED <<clock, frames, sink, tokenQueue, checked, stdout, queued, last,
                 panicked, worker,
                 checks>>
  /\ UNCHANGED <<tokenVars, supVars, payload, link, procs>>

\* handlePulseV2Messages, lines 199-240: every new-token message with a
\* creation time is measured and queued; the client keeps no set of the
\* tokens it has seen
HandlePulse ==
  /\ Received
  /\ \E ev \in Events("pulse", clock) :
       /\ sink' = IF ~ev.stamped
                    THEN sink
                    ELSE RecordPoolDiscoveryLatency(sink, "mobula-pulse",
                                                    LagMs("pulse", clock, ev.ts),
                                                    LagMs("pulse", clock, ev.ts))
       /\ IF ~ev.stamped
            THEN NoEnqueue
            ELSE Enqueues("pulse", TokenToCheck(ev.key, clock))
       /\ last' = Frame("pulse", ev,
                        \A r \in queued :
                          r.by = "pulse" => r.token.address # ev.key)
  /\ UNCHANGED <<seenTokens, checked, panicked, worker,
                 checks>>
  /\ UNCHANGED <<tokenVars, supVars, payload, link, procs>>

\* runMetadataCoverageMonitor: case token := <-tokenQueue, the two seconds'
\* sleep and checkTokenMetadata(token, config)
\* checkTokenMetadata prints token.Address[:16] first: slicing a string
\* shorter than that panics, and nothing recovers the panic
CheckPanics(token) == AddressLen(token.address) < AddressPrefix

CheckToken ==
  /\ ~panicked
  /\ tokenQueue # <<>>
  /\ checked' = Append(checked, Head(tokenQueue))
  /\ tokenQueue' = Tail(tokenQueue)
  /\ panicked' = CheckPanics(Head(tokenQueue))
  /\ UNCHANGED <<clock, frames, seenTokens, sink, stdout, queued, last, worker,
                 checks>>
  /\ UNCHANGED <<tokenVars, supVars, payload, link, procs>>

\* The clients that answer a ping frame of the provider's protocol with a
\* pong: handleGeckoMessage and connectAndMonitorCodexLaunchpad.  The others
\* skip the frame as one that is not data.
RepliesPong(c) == c \in {"gecko", "launchpad"}

\* A frame that is not data: history of what was done with it
OtherFrame(c, kind, ponged) ==
  [client |-> c, kind |-> kind, hash |-> FALSE, stamped |-> FALSE, lag |-> 0,
   key |-> "k1", first |-> FALSE, ponged |-> ponged]

\* A ping frame: conn.WriteJSON(pong) where the client has that branch,
\* continue in every client
HandlePing ==
  /\ Received
  /\ \E c \in Clients : last' = OtherFrame(c, "ping", RepliesPong(c))
  /\ UNCHANGED <<seenTokens, sink, tokenQueue, checked, stdout, queued,
                 panicked, worker,
                 checks>>
  /\ UNCHANGED <<tokenVars, supVars, payload, link, procs>>

\* json.Unmarshal fails: continue (return, in handleGeckoMessage)
HandleUnparsed ==
  /\ Received
  /\ \E c \in Clients : last' = OtherFrame(c, "unparsed", FALSE)
  /\ UNCHANGED <<seenTokens, sink, tokenQueue, checked, stdout, queued,
                 panicked, worker,
                 checks>>
  /\ UNCHANGED <<tokenVars, supVars, payload, link, procs>>

NextLag ==
  \/ HandlePing
  \/ HandleUnparsed
  \/ HandleMobula
  \/ HandleCodex
  \/ HandleGecko
  \/ HandleLaunchpad
  \/ LaunchpadReconnects
  \/ HandlePulse
  \/ CheckToken

SpecLag == InitLag /\ [][NextLag]_vars

\* ========================================================================
\* The dispatcher, step by step: the worker of runMetadataCoverageMonitor
\* takes a request from tokenQueue, sleeps, and checkTokenMetadata calls the
\* providers one after the other; the stream clients queue requests in the
\* meantime, and the Codex head-lag client holds the lock of the token cache
\* while it exchanges the credential.

\* time.Sleep(2 * time.Second), in milliseconds
CheckDelay == 2000

Idle == [at |-> "idle", token |-> [address |-> "", detectedAt |-> 0],
         since |-> 0, provider |-> "", result |-> NoFields,
         counted |-> FALSE, coverage |-> {}]

\* The network id of Solana at Codex
SolanaNetworkID == 1399811149

\* The network of the events of a token key: the keys stand for a token on
\* Solana, one on BNB chain and one on Ethereum
NetworkOf(k) ==
  CASE k = "k1" -> SolanaNetworkID
    [] k = "k2" -> 56
    [] OTHER -> 1

\* ChainID: fmt.Sprintf("evm:%d", event.NetworkID); the string is kept as
\* the sequence of its parts around the colon
LaunchpadChainID(networkID) == <<"evm", networkID>>

\* token.ChainID as Mobula sends it: "solana:solana", "evm:56", ...
PulseChainID(networkID) ==
  IF networkID = SolanaNetworkID THEN <<"solana", "solana">>
                                 ELSE <<"evm", networkID>>

\* getCodexNetworkID: 0 stands for a chain that is not supported
getCodexNetworkID(chainID) ==
  CASE chainID \in {<<"solana">>, <<"solana", "solana">>} -> SolanaNetworkID
    [] chainID = <<"evm", 1>> -> 1
    [] chainID = <<"evm", 8453>> -> 8453
    [] chainID = <<"evm", 56>> -> 56
    [] chainID = <<"evm", 42161>> -> 42161
    [] OTHER -> 0

\* The ChainID field of a request, which the client that queued it fills in
ChainIDOf(q) ==
  IF q.by = "launchpad" THEN LaunchpadChainID(NetworkOf(q.token.address))
                        ELSE PulseChainID(NetworkOf(q.token.address))

\* The requests that were queued with these fields; the token in the model
\* leaves out the ChainID, which ChainIDOf gives back
QueuedAs(token) == {q \in queued : q.token = token}

\* The MetadataFields a provider check may return: with Error set the
\* fields keep their zero value, without it the logo is there or is not
CheckResults ==
  {[error |-> TRUE, hasLogo |-> FALSE],
   [error |-> FALSE, hasLogo |-> FALSE],
   [error |-> FALSE, hasLogo |-> TRUE]}

\* checkCodexMetadata returns Error "unsupported_chain" before any request
\* when getCodexNetworkID gives 0
CodexResults(token) ==
  UNION {IF getCodexNetworkID(ChainIDOf(q)) = 0
           THEN {[error |-> TRUE, hasLogo |-> FALSE]}
           ELSE CheckResults : q \in QueuedAs(token)}

\* updateStats counts the fields of a result without Error
CountsFields(fields) == ~fields.error

\* RecordMetadataCoverage(provider, chainName, "logo", result.HasLogo), as
\* checkTokenMetadata calls it after each provider check: one observation
\* for metadataCoverageTotal, counted in metadataCoverageSuccess if present
RecordMetadataCoverage(provider, fields) ==
  {[provider |-> provider, field |-> "logo", present |-> fields.hasLogo]}

\* The worker after the check of a provider has returned fields; result,
\* counted and coverage are history of the last provider call
Checked(w, provider, fields, next) ==
  [w EXCEPT !.at = next, !.provider = provider, !.result = fields,
            !.counted = CountsFields(fields),
            !.coverage = RecordMetadataCoverage(provider, fields)]

\* The calls of QueueTokenForMetadataCheck by the launchpad and the Pulse
\* client; the measurement they record before is left out here
StreamClientQueues ==
  /\ Received
  /\ \E c \in {"launchpad", "pulse"}, k \in TokenKeys :
       Enqueues(c, TokenToCheck(k, clock))
  /\ UNCHANGED <<seenTokens, sink, checked, last, panicked, worker, checks>>
  /\ UNCHANGED <<tokenVars, supVars, payload, link, procs>>

\* case token := <-tokenQueue
WorkerDequeues ==
  /\ ~panicked
  /\ worker.at = "idle"
  /\ tokenQueue # <<>>
  /\ worker' = [worker EXCEPT !.at = "delay", !.token = Head(tokenQueue),
                              !.since = clock]
  /\ tokenQueue' = Tail(tokenQueue)
  /\ UNCHANGED <<clock, frames, seenTokens, sink, checked, stdout, queued, last,
                 panicked, checks>>
  /\ UNCHANGED <<tokenVars, supVars, payload, link, procs>>

\* The instant at which a sleep of CheckDelay that began at since is over
DelayEnd_None(since, t) == t

DelayEnd(since, t) == IF t < since + CheckDelay THEN since + CheckDelay ELSE t

\* the sleep is over and checkTokenMetadata(token, config) is called; its
\* first statement is the print of the address
WorkerDelayEnds ==
  /\ ~panicked
  /\ worker.at = "delay"
  /\ clock' = DelayEnd(worker.since, clock)
  /\ checked' = Append(checked, worker.token)
  /\ panicked' = CheckPanics(worker.token)
  /\ worker' = [worker EXCEPT
                  !.at = IF CheckPanics(worker.token) THEN "gone" ELSE "mobula"]
  /\ UNCHANGED <<frames, seenTokens, sink, tokenQueue, stdout, queued, last,
                 checks>>
  /\ UNCHANGED <<tokenVars, supVars, payload, link, procs>>

\* checkMobulaMetadata(token, config.MobulaAPIKey)
WorkerChecksMobula ==
  /\ worker.at = "mobula"
  /\ checks' = Append(checks, [provider |-> "mobula", token |-> worker.token,
                               at |-> clock])
  /\ \E fields \in CheckResults :
       worker' = Checked(worker, "mobula", fields, "codex")
  /\ UNCHANGED <<clock, frames, seenTokens, sink, tokenQueue, checked, stdout,
                 queued, last, panicked>>
  /\ UNCHANGED <<tokenVars, supVars, payload, link, procs>>

\* checkCodexMetadata: GetDefinedJWTToken takes the lock of the token cache,
\* which it gets when no goroutine holds the write lock, and the request to
\* Codex follows
WorkerChecksCodex ==
  /\ worker.at = "codex"
  /\ mu.writer = 0
  /\ checks' = Append(checks, [provider |-> "codex", token |-> worker.token,
                               at |-> clock])
  /\ \E fields \in CodexResults(worker.token) :
       worker' = Checked(worker, "codex", fields, "idle")
  /\ UNCHANGED <<clock, frames, seenTokens, sink, tokenQueue, checked, stdout,
                 queued, last, panicked>>
  /\ UNCHANGED <<tokenVars, supVars, payload, link, procs>>

\* GetDefinedJWTToken in the Codex head-lag client (goroutine 1):
\* globalTokenCache.mu.Lock() and, under the lock, the request of
\* generateDefinedJWTToken
ExchangeStarts ==
  /\ ~panicked
  /\ mu.writer = 0
  /\ exchanges < MaxExchanges
  /\ mu' = [mu EXCEPT !.writer = 1]
  /\ exchanges' = exchanges + 1
  /\ UNCHANGED <<cache, tokOwner, expOwner, pc, loc, result, snap, now,
                 invFloor>>
  /\ UNCHANGED <<supVars, lagVars>>

\* the deferred globalTokenCache.mu.Unlock()
ExchangeEnds ==
  /\ mu.writer = 1
  /\ mu' = [mu EXCEPT !.writer = 0]
  /\ UNCHANGED <<cache, tokOwner, expOwner, pc, loc, result, snap, now,
                 exchanges, invFloor>>
  /\ UNCHANGED <<supVars, lagVars>>

NextDispatch ==
  \/ StreamClientQueues
  \/ WorkerDequeues
  \/ WorkerDelayEnds
  \/ WorkerChecksMobula
  \/ WorkerChecksCodex
  \/ ExchangeStarts
  \/ ExchangeEnds

SpecDispatch == InitLag /\ [][NextDispatch]_vars

\* ========================================================================
\* The read loops, event by event: a frame of the Codex stream carries a list
\* of events that the loop ranges over, a message of the GeckoTerminal
\* stream carries one swap.  Each client reads its next frame when it has
\* handled the one before.

\* Events in one frame of the Codex stream, at most
MaxEvents == 2

\* A swap with its transaction hash and one without, both sent 150 ms ago
OrderEvents(c, t) ==
  {ev \in Events(c, t) : ev.stamped /\ ev.ts = (t - 150) \div UnitMs(c)}

\* the payloads of a frame: onEventsCreated.events for Codex
Payloads(c, t) ==
  IF c = "codex"
    THEN UNION {[1..n -> OrderEvents(c, t)] : n \in 0..MaxEvents}
    ELSE [1..1 -> OrderEvents(c, t)]

\* conn.ReadMessage() returns the next frame of the connection
ReadsFrame(c) ==
  /\ payload[c].next > Len(payload[c].events)
  /\ payload[c].frame = 0 \/ payload[c].parsed
  /\ Received
  /\ \E evs \in Payloads(c, clock) :
       payload' = [payload EXCEPT ![c].frame = frames', ![c].events = evs,
                                  ![c].next = 1, ![c].readAt = clock',
                                  ![c].parsed = FALSE]
  /\ UNCHANGED <<seenTokens, sink, tokenQueue, checked, stdout, queued, last,
                 panicked, worker, checks>>
  /\ UNCHANGED <<tokenVars, supVars, link, procs>>

\* Time that json.Unmarshal of a frame takes, in milliseconds
ParseCost == 1

\* json.Unmarshal(message, &wsMsg) and the unmarshalling of the payload:
\* the frame is parsed, which takes time
Parses(c) ==
  /\ ~panicked
  /\ payload[c].frame > 0
  /\ ~payload[c].parsed
  /\ clock' = clock + ParseCost
  /\ payload' = [payload EXCEPT ![c].parsed = TRUE]
  /\ UNCHANGED <<frames, seenTokens, sink, tokenQueue, checked, stdout, queued,
                 last, panicked, worker, checks>>
  /\ UNCHANGED <<tokenVars, supVars, link, procs>>

\* The place in the payload of the event taken at a step of the loop
Position_Reversed(p) == Len(p.events) - p.next + 1

Position(p) == p.next

\* event.EventType != "Swap" || event.TransactionHash == "" for Codex; the
\* handler of GeckoTerminal has no such test
Recordable(c, ev) == c = "gecko" \/ ev.hash

\* for _, event := range events { ... RecordHeadLag(...) }, one iteration,
\* which begins with receiveTime := time.Now().UTC();
\* done is history: the frame and the place of the events recorded
HandlesEvent(c) ==
  /\ ~panicked
  /\ payload[c].next <= Len(payload[c].events)
  /\ payload[c].parsed
  /\ LET p == payload[c]
         ev == p.events[Position(p)]
         lagMs == LagMs(c, clock, ev.ts)
     IN /\ sink' = IF Recordable(c, ev)
                     THEN RecordHeadLag(sink, Aggregator(c), lagMs, lagMs)
                     ELSE sink
        /\ payload' = [payload EXCEPT
                         ![c].next = p.next + 1,
                         ![c].receiveTime = clock,
                         ![c].done = IF Recordable(c, ev)
                                       THEN Append(p.done,
                                                   <<p.frame, Position(p)>>)
                                       ELSE p.done]
  /\ UNCHANGED <<clock, frames, seenTokens, tokenQueue, checked, stdout, queued,
                 last, panicked, worker, checks>>
  /\ UNCHANGED <<tokenVars, supVars, link, procs>>

NextOrder ==
  \/ \E c \in OrderClients : ReadsFrame(c)
  \/ \E c \in OrderClients : Parses(c)
  \/ \E c \in OrderClients : HandlesEvent(c)

SpecOrder == InitLag /\ [][NextOrder]_vars

\* The measurements of client c in the sink
MeasurementsOf(c) ==
  SelectSeq(sink, LAMBDA e : e.gauge = "head_lag" /\ e.aggregator = Aggregator(c))

\* <<frame, place>> pairs in the order of frames and, within a frame, of places
Before(a, b) == a[1] < b[1] \/ (a[1] = b[1] /\ a[2] < b[2])

\* C25: within the stream of one provider the events are handled in the
\* order of arrival: the measurement of an event of frame i is recorded
\* before every measurement of an event of a later frame, the events of one
\* frame are recorded in the order of the payload, and the sink holds one
\* measurement for each of them.
C25_RecordedInArrivalOrder ==
  \A c \in OrderClients :
    /\ \A i, j \in DOMAIN payload[c].done :
         i < j => Before(payload[c].done[i], payload[c].done[j])
    /\ Len(MeasurementsOf(c)) = Len(payload[c].done)

\* Codex has recorded two events of one frame and an event of a later frame
C25_Witness ==
  LET done == payload["codex"].done
  IN /\ Len(done) = 3
     /\ done[1][1] = done[2][1]
     /\ done[2][1] < done[3][1]

\* ========================================================================
\* Properties of the token cache
\* ========================================================================
InExclusiveRefresh(t) ==
  \/ pc[t] \in {"exchange", "w_token", "w_expires", "w_last"}
  \/ pc[t] = "ret" /\ loc[t].outcome \in {"fresh", "error"}

AnsweredFromCache(t) == pc[t] \in {"r_ret", "ret"} /\ loc[t].outcome = "cached"

\* C1: a get_token call is answered from the cache, without an exchange,
\* exactly when its check finds a token cached and the clock before the
\* token's expiry minus the one hour margin; a call whose check under the
\* exclusive lock finds no token, or the expiry at most one hour ahead,
\* sends an exchange request and returns the token that exchange stored.
C1_FreshnessDecidesExchange ==
  \A t \in Tasks :
    /\ AnsweredFromCache(t) =>
         /\ loc[t].seenToken
         /\ loc[t].seenLeft > SafetyMargin
         /\ loc[t].req = 0
         /\ loc[t].token = cache.token
    /\ InExclusiveRefresh(t) =>
         /\ ~(loc[t].seenToken /\ loc[t].seenLeft > SafetyMargin)
         /\ loc[t].req # 0
    /\ (pc[t] = "ret" /\ loc[t].outcome = "fresh") =>
         /\ tokOwner = loc[t].req
         /\ cache.token = loc[t].token
         /\ loc[t].token.id \in {0, loc[t].req}

\* A call found a cached token that expires in 30 minutes and returns a
\* freshly exchanged one.
C1_Witness ==
  \E t \in Tasks :
    /\ pc[t] = "ret"
    /\ loc[t].outcome = "fresh"
    /\ loc[t].seenToken
    /\ loc[t].seenLeft = 1
    /\ loc[t].token.shape = "jwt"

ColdCallsReturned ==
  \A t \in Tasks :
    pc[t] = "done" /\ result[t].cold /\ result[t].kind \in {"token", "error"}

C3_OneExchangeInFlight ==
  Cardinality({t \in Tasks : pc[t] = "exchange"}) <= 1

\* An exchange is in flight while another goroutine waits for the lock.
C3_Witness ==
  \E t \in Tasks :
    /\ pc[t] = "exchange"
    /\ \E u \in Tasks \ {t} : pc[u] \in {"wlock", "ilock"}

\* C4: whenever a call reads the cache, token and expiresAt were written by
\* the same refresh (or both cleared by the same invalidate), and a call
\* answered from the cache returns the token the cache holds.
C4_NoHalfWrittenToken ==
  \A t \in Tasks :
    /\ pc[t] \in {"rcheck", "r_ret", "r_unlock", "wcheck"} => tokOwner = expOwner
    /\ AnsweredFromCache(t) =>
         /\ tokOwner = expOwner
         /\ tokOwner # 0
         /\ loc[t].token = cache.token

\* A call is answered from the cache while a writer waits for the lock.
C4_Witness ==
  \E t \in Tasks :
    /\ pc[t] = "r_ret"
    /\ \E u \in Tasks \ {t} : pc[u] \in {"wlock", "ilock"}

\* C5: a call whose exchange failed returns an error and leaves token,
\* expiresAt and lastRefresh as they were when it took the lock.
C5_FailedExchangeKeepsCache ==
  \A t \in Tasks :
    /\ (pc[t] = "ret" /\ loc[t].err # "") =>
         /\ loc[t].outcome = "error"
         /\ loc[t].err \in ExchangeErrors
         /\ loc[t].token = EmptyToken
         /\ cache = snap[t]
    /\ (pc[t] = "done" /\ result[t].kind = "error") => result[t].token = 0

\* An exchange failed while a (stale) token was cached.
C5_Witness ==
  \E t \in Tasks :
    /\ pc[t] = "ret"
    /\ loc[t].outcome = "error"
    /\ cache.token.shape # "empty"
    /\ cache.lastRefresh # ZeroTime

\* C6: when InvalidateTokenCache returns, token and expiresAt are cleared
\* whatever they were, and no later call returns a token that was issued
\* before that invalidation returned.
C6_InvalidateForcesExchange ==
  \A t \in Tasks :
    /\ pc[t] = "i_ret" =>
         /\ cache.token = EmptyToken
         /\ cache.expiresAt = ZeroTime
    /\ (/\ pc[t] \in {"r_ret", "ret"}
        /\ loc[t].outcome \in {"cached", "fresh"}
        /\ loc[t].token.shape # "empty") => loc[t].token.id > invFloor

\* InvalidateTokenCache has cleared a token that was still fresh.
C6_Witness ==
  \E t \in Tasks :
    /\ pc[t] = "i_ret"
    /\ snap[t].token.shape # "empty"
    /\ now < snap[t].expiresAt - SafetyMargin

Invalidated(c) ==
  InvalidatedRest([c EXCEPT !.token = InvalidatedToken(c, now)], now)

\* C7: InvalidateTokenCache on an empty cache leaves the cache as it was,
\* and invalidating twice leaves what invalidating once leaves.
C7_InvalidateEmptyIsNoOp ==
  /\ \A t \in Tasks :
       (/\ pc[t] = "i_ret"
        /\ snap[t].token = EmptyToken
        /\ snap[t].expiresAt = ZeroTime) => cache = snap[t]
  /\ Invalidated(Invalidated(cache)) = Invalidated(cache)

\* InvalidateTokenCache ran on a cache that an earlier invalidate had
\* emptied after a refresh.
C7_Witness ==
  \E t \in Tasks :
    /\ pc[t] = "i_ret"
    /\ snap[t].token = EmptyToken
    /\ snap[t].expiresAt = ZeroTime
    /\ snap[t].lastRefresh # ZeroTime

ExchangedUndecodable(t) ==
  /\ pc[t] \in {"w_token", "w_expires", "w_last", "ret"}
  /\ loc[t].req # 0
  /\ loc[t].err = ""
  /\ ~decodeJWTExpiration(loc[t].token).ok

\* C8: when the exchange succeeds with a token whose expiry cannot be
\* decoded, the call does not fail: it caches the token with the expiry
\* now + 24 hours and returns the token.
C8_UndecodableExpiryDefaults ==
  \A t \in Tasks :
    ExchangedUndecodable(t) =>
      /\ loc[t].outcome # "error"
      /\ pc[t] # "ret" => loc[t].expiresAt = now + DefaultValidity
      /\ pc[t] = "ret" =>
           /\ loc[t].outcome = "fresh"
           /\ cache.token = loc[t].token
           /\ cache.expiresAt = cache.lastRefresh + DefaultValidity

\* A call returns a token that is no JWT.
C8_Witness ==
  \E t \in Tasks :
    /\ pc[t] = "ret"
    /\ loc[t].outcome = "fresh"
    /\ loc[t].token.shape = "noparts"
    /\ cache.token = loc[t].token

\* ========================================================================
\* Properties of the reconnection supervisors
\* ========================================================================
Min(a, b) == IF a < b THEN a ELSE b

SkewToleranceMs == 0

\* C9 as stated: no measurement whose lag is below -skew_tolerance or above
\* the ceiling of two minutes is forwarded to the metrics sink.
C9_OutOfRangeNeverForwarded ==
  \A i \in DOMAIN sink :
    /\ sink[i].lag >= -SkewToleranceMs
    /\ sink[i].lag <= MaxLatencyMs

\* C11: while the Codex head-lag supervisor sleeps after an attempt that
\* failed with a rate limit error, the sleep lasts the rate limit delay of
\* two minutes, whatever reconnectDelay was when the attempt failed.
C11_RateLimitSleepsTwoMinutes ==
  (monitor = "codex" /\ spc = "sleeping" /\ ContainsRateLimited(lastErr)) =>
    /\ sleepFor = RateLimitDelay
    /\ reconnectDelay = RateLimitDelay

\* The token exchange is rate limited on the third failed attempt, when the
\* doubled backoff was no longer the base delay.
C11_Witness ==
  /\ monitor = "codex"
  /\ spc = "sleeping"
  /\ ContainsRateLimited(lastErr)
  /\ fails >= 3
  /\ sleepFor = 120

\* C12 as stated: when the receive loop is entered the backoff is the base
\* delay, and the sleep that follows a lost stream lasts the base delay.
C12_SuccessResetsBackoff ==
  /\ spc = "streaming" => reconnectDelay = BaseDelay(monitor)
  /\ (spc = "sleeping" /\ lastErr \in StreamErrors(monitor)) =>
       sleepFor = BaseDelay(monitor)

AuthenticationFailure(e) == ContainsAuthentication(e) \/ Contains401(e)

\* While the Codex head-lag supervisor sleeps after an authentication
\* failure the token cache is empty.
AuthFailureInvalidates ==
  (monitor = "codex" /\ spc = "sleeping" /\ AuthenticationFailure(lastErr)) =>
    /\ cache.token = EmptyToken
    /\ cache.expiresAt = ZeroTime

\* All sleeps that followed an authentication failure lasted the same time.
AuthDelayIsFixed == Cardinality(authDelays) <= 1

\* C13 as stated: an authentication failure of a Codex connection attempt
\* invalidates the token cache before the next attempt, and the delay before
\* the retry is the same on every authentication failure.
C13_AuthInvalidatesAndFixedDelay == AuthFailureInvalidates /\ AuthDelayIsFixed

\* C14 as stated: whenever stopChan is closed while a supervisor sleeps
\* between two attempts, the supervisor can stop at once, without the sleep
\* running to its end.
C14_SleepIsCancellable ==
  (spc = "sleeping" /\ stopped) => ENABLED SleepCancelled

\* ------------------------------------------------------------------------
\* Shutdown.  main closes stopChan and waits for every monitor goroutine
\* (wg.Wait).  The steps below are the ones the supervisor's own code takes
\* in bounded time: a dial, a token exchange and a subscription send end
\* with a result, a sleep ends, and a receive loop that has a read deadline
\* comes back to its check of stopChan.  The loss of an established
\* connection (StreamFails) and the signal itself (Stop) belong to the
\* environment and are not assumed to happen.
SupervisorStep ==
  \/ SupStart
  \/ SupLoop
  \/ CodexTokenCached
  \/ CodexTokenExchanged
  \/ CodexTokenFails
  \/ ConnectFails
  \/ Dialed
  \/ HandshakeTimesOut
  \/ SubscribeSent
  \/ SubscribeAborts
  \/ SubscribeSkipped
  \/ Connected
  \/ StreamStops
  \/ SleepEnds
  \/ SleepCancelled

SpecStop == InitBackoff /\ [][NextBackoff]_vars /\ WF_vars(SupervisorStep)

Terminated == spc \in {"stopped", "skipped"}

\* The supervisors whose receive loop and sleep both watch stopChan end
\* after the signal
SelectSupervisorsTerminate ==
  (stopped /\ monitor \in SelectSupervisors) ~> Terminated

\* C15 as stated: once stopChan is closed, every monitor task eventually
\* terminates, whatever it was doing when the signal came.
C15_StopTerminatesEveryMonitor == stopped ~> Terminated

\* C16: a call of QueueTokenForMetadataCheck never blocks its caller, so a
\* receive loop can handle its next frame whatever the queue holds; the call
\* appends the request when the queue has room and otherwise drops that
\* request and leaves the queue as it was.
C16_EnqueueNeverBlocksDropsNewest ==
  [][/\ frames < MaxFrames => ENABLED HandlePulse /\ ENABLED HandleLaunchpad
     /\ \A r \in queued' \ queued :
          IF Len(tokenQueue) < QueueCapacity
            THEN tokenQueue' = Append(tokenQueue, r.token)
            ELSE tokenQueue' = tokenQueue]_vars

C16_Witness ==
  /\ Len(tokenQueue) = QueueCapacity
  /\ stdout # <<>>
  /\ \E r1, r2 \in queued :
       /\ r1.by = "pulse"
       /\ r2.by = "launchpad"
       /\ r1.token \in {tokenQueue[i] : i \in DOMAIN tokenQueue}
       /\ r2.token \notin {tokenQueue[i] : i \in DOMAIN tokenQueue}
       /\ r2.token \notin {checked[i] : i \in DOMAIN checked}

\* The requests dropped so far: every call either left its request in the
\* queue, or the worker has taken it, or it was dropped
Dropped == Cardinality(queued) - Len(tokenQueue) - Len(checked)

\* The drop counter among the series of the metrics sink.  The default branch
\* of QueueTokenForMetadataCheck calls no recorder: it prints a line.
DropCounter ==
  Cardinality({i \in DOMAIN sink : sink[i].gauge = "queue_dropped"})

\* Every drop prints one "Queue full" line
DropsAreLogged == Len(stdout) = Dropped

\* C17 as stated: after any sequence of enqueues the drop counter equals the
\* number of requests that were dropped because the queue was full.
C17_DropCounterCountsDrops == DropCounter = Dropped

\* Over the life of the process a client queues at most one request for an
\* instrument
EnqueuedOnce(c) ==
  \A a, b \in queued :
    (a.by = c /\ b.by = c /\ a.token.address = b.token.address) => a = b

\* The worker takes no request twice, and takes only requests that were
\* queued
ConsumedAtMostOnce ==
  /\ \A i, j \in DOMAIN checked : checked[i] = checked[j] => i = j
  /\ \A i \in DOMAIN checked : \E r \in queued : r.token = checked[i]

LaunchpadEnqueuedOnce == EnqueuedOnce("launchpad")

\* C18 as stated: at most one Check Request is ever enqueued for an
\* instrument by the client that reports it, across repeated events and
\* reconnects, and the worker processes no request more than once.
C18_EnqueuedOnceConsumedAtMostOnce ==
  /\ EnqueuedOnce("launchpad")
  /\ EnqueuedOnce("pulse")
  /\ ConsumedAtMostOnce

\* A client has handled a frame with a transaction hash and an on-chain
\* timestamp T, received at T + 500 ms
FrameOf500 ==
  /\ frames' = frames + 1
  /\ last'.hash
  /\ last'.stamped
  /\ last'.lag = 500

\* The step recorded one measurement, of 500 ms, for the client's aggregator
OneMeasurementOf500 ==
  /\ Len(sink') = Len(sink) + 1
  /\ sink'[Len(sink')].value = 500
  /\ sink'[Len(sink')].aggregator = Aggregator(last'.client)

\* The step made one call of QueueTokenForMetadataCheck, with the
\* instrument's address
OneRequestFor(c, address) ==
  queued' \ queued = {[by |-> c, token |-> TokenToCheck(address, clock)]}

C20_SubscriptionAllOrNothing == spc = "streaming" => subMissed = 0

\* The clients other than GeckoTerminal abort the attempt on the first
\* subscription that cannot be sent
AbortingClientsAllOrNothing ==
  (monitor # "gecko" /\ spc = "streaming") => subMissed = 0

\* The state of a stream client that a position of its supervisor stands for
StageOf(p) ==
  CASE p \in {"token", "connecting"} -> "Connecting"
    [] p = "handshaking" -> "Handshaking"
    [] p = "subscribing" -> "Subscribing"
    [] p = "streaming" -> "Streaming"
    [] OTHER -> "Disconnected"

\* The changes of state of an attempt: one state forward, or back to
\* Disconnected.  A client whose protocol has no handshake has nothing to do
\* in Handshaking.
StageSteps(s) ==
  {<<"Disconnected", "Connecting">>, <<"Connecting", "Handshaking">>,
   <<"Handshaking", "Subscribing">>, <<"Subscribing", "Streaming">>}
  \cup {<<st, "Disconnected">> :
          st \in {"Connecting", "Handshaking", "Subscribing", "Streaming"}}
  \cup (IF HasHandshake(s) THEN {} ELSE {<<"Connecting", "Subscribing">>})

\* Every change of state is one of StageSteps
StagesInOrder ==
  [][StageOf(spc') # StageOf(spc) =>
       <<StageOf(spc), StageOf(spc')>> \in StageSteps(monitor)]_vars

\* C21 as stated: an attempt moves through Disconnected, Connecting,
\* Handshaking, Subscribing, Streaming in that order, a failure leads back
\* to Disconnected, and no data frame is handled before the client is in
\* Streaming, that is before all subscriptions have been sent.
C21_StagesInOrderNoEarlyFrame ==
  [][/\ StageOf(spc') # StageOf(spc) =>
          <<StageOf(spc), StageOf(spc')>> \in StageSteps(monitor)
     /\ frameStages' \subseteq {"streaming"}]_vars

\* The clients that take a credential from the configuration: an API key, or
\* the session credential for the Codex head-lag stream.  The GeckoTerminal
\* stream is public.
HasCredential(s) == s # "gecko"

\* The supervisor has made no attempt: it has asked for no token, dialled no
\* connection and slept after no failure
Disabled ==
  /\ spc \in {"start", "skipped", "top", "stopped"}
  /\ fails = 0
  /\ exchanges = 0

\* The clients that test their key return at once when it is empty
KeyCheckingClientsDisabled == (ChecksKey(monitor) /\ ~hasKey) => Disabled

\* C22 as stated: a client whose credential is absent never attempts a
\* connection or a token exchange.
C22_AbsentCredentialDisables ==
  (HasCredential(monitor) /\ ~hasKey) => Disabled

\* A frame that cannot be parsed is skipped: nothing is recorded and nothing
\* is queued for it
UnparsedFramesSkipped ==
  [][(frames' = frames + 1 /\ last'.kind = "unparsed") =>
       /\ sink' = sink
       /\ queued' = queued
       /\ tokenQueue' = tokenQueue]_vars

\* C23 as stated: an unparsable frame is skipped, and no frame and no Check
\* Request that a frame triggers ends the receive loops, the worker or the
\* process.
C23_NoFrameIsFatal ==
  [][/\ (frames' = frames + 1 /\ last'.kind = "unparsed") =>
          /\ sink' = sink
          /\ queued' = queued
          /\ tokenQueue' = tokenQueue
     /\ ~panicked']_vars

\* ------------------------------------------------------------------------
\* A request waits for its Mobula check
MobulaWorkWaits == tokenQueue # <<>>

\* The worker is in the Codex call and cannot take the lock of the token
\* cache, which the Codex head-lag client holds during its exchange
WorkerWaitsForCodexExchange == worker.at = "codex" /\ mu.writer # 0

\* C24: a slow call of one provider never makes the work of another provider
\* wait, neither through the token cache, locked during an exchange, nor
\* through the one worker of the dispatcher: no request waits for its Mobula
\* check while the worker waits for the exchange of the Codex head-lag client.
C24_SlowProviderStallsNoOther == ~(WorkerWaitsForCodexExchange /\ MobulaWorkWaits)

\* ------------------------------------------------------------------------
\* The requests the worker has taken or will take, in the order of service
InService == IF worker.at = "delay" THEN <<worker.token>> ELSE <<>>

ServiceOrder == checked \o InService \o tokenQueue

\* The requests are served in the order in which they were queued
ServedInArrivalOrder ==
  \A i, j \in DOMAIN ServiceOrder :
    i < j => ServiceOrder[i].detectedAt < ServiceOrder[j].detectedAt

\* The number of calls of provider p made for request t
ChecksOf(t, p) ==
  Cardinality({i \in DOMAIN checks :
                 checks[i].token = t /\ checks[i].provider = p})

\* The check of every request handed to checkTokenMetadata is complete
ChecksComplete ==
  \A i \in DOMAIN checked :
    ChecksOf(checked[i], "mobula") = 1 /\ ChecksOf(checked[i], "codex") = 1

PingHandled == frames' = frames + 1 /\ last'.kind = "ping"

\* A ping frame leads to no measurement and no request
PingTakesNoFurtherAction ==
  [][PingHandled =>
       (sink' = sink /\ queued' = queued /\ tokenQueue' = tokenQueue)]_vars

\* C27: a client that receives a ping frame while it streams replies with a
\* pong and does nothing else for the frame, neither a measurement nor a
\* request to the check queue; this holds in every stream client.
C27_PingAnsweredWithPong ==
  [][PingHandled =>
       /\ last'.ponged
       /\ sink' = sink /\ queued' = queued /\ tokenQueue' = tokenQueue]_vars

\* ------------------------------------------------------------------------
\* The clients that measure the lag of swaps
HeadLagClients == {"mobula", "codex", "gecko"}

\* The step handles an event of client c that lacks its transaction hash or
\* its on-chain timestamp (absent or zero)
IncompleteEventHandled(c) ==
  /\ frames' = frames + 1
  /\ last'.kind = "data"
  /\ last'.client = c
  /\ (~last'.hash \/ ~last'.stamped)

\* The Mobula client records nothing for an incomplete event
MobulaFiltersIncomplete ==
  [][IncompleteEventHandled("mobula") => sink' = sink]_vars

\* C28: no lag is recorded for an event without transaction hash or without
\* on-chain timestamp; every stream client drops such an event before it
\* computes the lag.
C28_IncompleteEventsNotMeasured ==
  [][\A c \in HeadLagClients : IncompleteEventHandled(c) => sink' = sink]_vars

\* ------------------------------------------------------------------------
\* A client that sets a read deadline before it reads the acknowledgement
\* leaves the handshake
DeadlineClientsLeaveHandshake ==
  (spc = "handshaking" /\ AckDeadline(monitor)) ~> (spc # "handshaking")

\* C29: the wait for the acknowledgement of the handshake is bounded: the
\* acknowledgement, a wrong first frame or the timeout ends it, and no client
\* stays in the handshake forever.
C29_HandshakeEnds == (spc = "handshaking") ~> (spc # "handshaking")

\* ------------------------------------------------------------------------
\* The receive loop returns nil: the run ends cleanly
CleanEnd == spc = "streaming" /\ spc' = "top"

\* C30: a run ends cleanly only because the stop was requested; the
\* supervisor then resets its delay, takes the stop branch at the top of its
\* loop and returns, and a supervisor that has returned starts no other
\* attempt.
C30_CleanEndExitsForGood ==
  [][/\ CleanEnd => (stopped /\ reconnectDelay' = CleanDelay)
     /\ (spc = "top" /\ stopped /\ spc' # spc) => spc' = "stopped"
     /\ spc = "stopped" => spc' = "stopped"]_vars

\* The supervisor has returned after the clean end of a run that followed
\* two failed attempts: the delay, doubled after the first, is reset
C30_Witness ==
  /\ spc = "stopped"
  /\ stopped
  /\ fails >= 2
  /\ reconnectDelay = CleanDelay
  /\ WatchesStop(monitor)

\* ------------------------------------------------------------------------
\* The stages of an attempt in which the client holds a connection
HoldsConnection(p) == p \in {"handshaking", "subscribing", "streaming"}

\* C31: every connection a client opens is closed on every exit of the
\* attempt (failed handshake, failed subscription, read error, stop), so the
\* client holds one connection while an attempt is past the dial and none
\* otherwise, over any sequence of reconnects.
C31_AtMostOneOpenConnection ==
  conns = IF HoldsConnection(spc) THEN 1 ELSE 0

\* A second connection is open after the first one was given up in the
\* handshake
C31_Witness ==
  /\ conns = 1
  /\ fails > 0
  /\ lastErr \in HandshakeErrors(monitor) \cup {"ack read failed"}
  /\ HoldsConnection(spc)

\* ------------------------------------------------------------------------
\* Client c has computed a lag for the frame it holds
LagComputed(c) == payload[c].frame > 0 /\ payload[c].next > 1

\* C32: in every stream client the receipt instant that enters the lag is
\* taken directly after the frame is read and before it is parsed: the
\* instant a lag was computed with is the instant the read returned.
C32_ReceiptCapturedBeforeParse ==
  \A c \in OrderClients :
    LagComputed(c) => payload[c].receiveTime = payload[c].readAt

\* ------------------------------------------------------------------------
\* updateStats leaves the fields of a failed check out of coverageStats
StatsSkipFailedChecks == worker.result.error => ~worker.counted

\* C33: coverage is recorded only for provider checks that succeeded: when
\* the check of a provider ends in an error, no observation of a field,
\* present or absent, is recorded for that provider and request.
C33_NoCoverageForFailedCheck == worker.result.error => worker.coverage = {}

\* ------------------------------------------------------------------------
\* The goroutines that hold the lock of the token cache, shared or exclusive,
\* inside GetDefinedJWTToken
InsideGet ==
  {u \in Tasks : pc[u] \in {"rcheck", "r_ret", "r_unlock", "wcheck", "exchange",
                            "w_token", "w_expires", "w_last", "ret"}}

\* The goroutines inside InvalidateTokenCache, past mu.Lock()
InsideInvalidate == {t \in Tasks : pc[t] \in {"i_token", "i_expires", "i_ret"}}

\* C34: InvalidateTokenCache is ordered against a refresh in flight: it
\* clears the cache only when no call is between its check and the end of its
\* stores, so an invalidation issued during an exchange takes effect after
\* the exchange has stored its token; when it returns the cache is empty and
\* no exchange is pending, and a token of an exchange that began before is not
\* served from the cache afterwards.
C34_InvalidateOrderedAfterRefresh ==
  /\ \A t \in InsideInvalidate : mu.writer = t /\ InsideGet = {}
  /\ \A t \in Tasks :
       pc[t] = "i_ret" =>
         /\ cache.token = EmptyToken /\ cache.expiresAt = ZeroTime
         /\ tokOwner = 0 /\ expOwner = 0
         /\ \A u \in Tasks : loc[u].req = 0
  /\ \A u \in Tasks :
       (pc[u] = "r_ret" /\ loc[u].outcome = "cached") =>
         (loc[u].token.id > invFloor /\ loc[u].token.id = tokOwner)

\* InvalidateTokenCache has cleared the token of the latest exchange, which
\* goroutine u had been given, and u has called GetDefinedJWTToken again
C34_Witness ==
  \E t, u \in Tasks :
    /\ pc[t] = "i_ret"
    /\ snap[t].token.shape # "empty"
    /\ snap[t].token.id = exchanges
    /\ result[u].kind = "token"
    /\ result[u].token = exchanges
    /\ pc[u] \in {"rlock", "wlock"}

\* ------------------------------------------------------------------------
\* C35: in every supervisor a sleep between two attempts lasts at least the
\* base delay of the provider and at most its maximum delay, whatever
\* failures (transient, rate limit, authentication) and healthy periods came
\* before.
C35_SleepWithinBaseAndMax ==
  spc = "sleeping" =>
    /\ sleepFor >= BaseDelay(monitor)
    /\ sleepFor <= MaxDelay(monitor)
    /\ sleepFor = reconnectDelay

\* The Codex supervisor sleeps the maximum after a rate limit and later
\* failures
C35_Witness ==
  /\ monitor = "codex"
  /\ spc = "sleeping"
  /\ ~transientOnly
  /\ sleepFor = MaxDelay(monitor)

\* ------------------------------------------------------------------------
\* The step handles a Deployed/Created event of the launchpad stream
LaunchpadEventHandled ==
  /\ frames' = frames + 1
  /\ last'.kind = "data"
  /\ last'.client = "launchpad"

\* C36: in the launchpad client, within one connection and until the set of
\* seen keys is emptied, at most one event per (network, token address) key
\* is evaluated: the key is marked seen before the event is validated, so
\* the first event alone decides about the measurement and the request, and
\* every later event of the key is skipped.
C36_FirstEventPerKeyDecides ==
  [][LaunchpadEventHandled =>
       /\ last'.first = (last'.key \notin seenTokens)
       /\ last'.key \in seenTokens'
       /\ ~last'.first =>
            (sink' = sink /\ queued' = queued /\ tokenQueue' = tokenQueue)]_vars

\* The first event of a key had no creation time and recorded nothing; the
\* second event of the key, on the same connection, is valid and is skipped
C36_Witness ==
  /\ frames = 2
  /\ last.client = "launchpad"
  /\ ~last.first
  /\ last.stamped
  /\ last.lag >= 0
  /\ last.lag <= codexMaxLaunchpadLagMs
  /\ last.key \in seenTokens
  /\ sink = <<>>
  /\ queued = {}

\* ========================================================================
\* main: the goroutines it registers in the wait group, the signal and the
\* wait.  A monitor is followed from outside: it waits at a select that
\* watches stopChan, or it is busy with a request or a frame.

\* The goroutines main starts with wg.Add(1) and defer wg.Done()
Goroutines ==
  {"metrics", "pulse", "mobula_rest", "codex_rest", "quote", "metadata",
   "headlag"}

Monitors == Goroutines \ {"metrics"}

\* main.go lines 43-96: the goroutines are started
MainStarts ==
  /\ procs.main = "starting"
  /\ procs' = [procs EXCEPT
                 !.main = "running",
                 !.wg = Goroutines,
                 !.at = [g \in Goroutines |->
                           IF g = "metrics" THEN "serving" ELSE "waiting"]]
  /\ UNCHANGED <<clock, frames, seenTokens, sink, tokenQueue, checked, stdout,
                 queued, last, panicked, worker, checks, payload, link>>
  /\ UNCHANGED <<tokenVars, supVars>>

\* The goroutine leaves the wait group: defer wg.Done()
Done(p, g) == [p EXCEPT !.at[g] = "returned", !.wg = @ \ {g}]

\* a monitor takes the other branch of its select: a tick, a request, a frame
Works(g) ==
  /\ procs.main \in {"running", "waiting"}
  /\ procs.at[g] = "waiting"
  /\ procs' = [procs EXCEPT !.at[g] = "working"]
  /\ UNCHANGED <<clock, frames, seenTokens, sink, tokenQueue, checked, stdout,
                 queued, last, panicked, worker, checks, payload, link>>
  /\ UNCHANGED <<tokenVars, supVars>>

\* Rounds of work of the monitors that are counted, at most
MaxRounds == 1

\* the monitor is back at its select; rounds is history
WorkEnds(g) ==
  /\ procs.main \in {"running", "waiting"}
  /\ procs.at[g] = "working"
  /\ procs' = [procs EXCEPT
                 !.at[g] = "waiting",
                 !.rounds = IF @ < MaxRounds THEN @ + 1 ELSE @]
  /\ UNCHANGED <<clock, frames, seenTokens, sink, tokenQueue, checked, stdout,
                 queued, last, panicked, worker, checks, payload, link>>
  /\ UNCHANGED <<tokenVars, supVars>>

\* case <-stopChan: return
Returns(g) ==
  /\ procs.stopped
  /\ procs.at[g] = "waiting"
  /\ procs' = Done(procs, g)
  /\ UNCHANGED <<clock, frames, seenTokens, sink, tokenQueue, checked, stdout,
                 queued, last, panicked, worker, checks, payload, link>>
  /\ UNCHANGED <<tokenVars, supVars>>

\* StartMetricsServer: http.ListenAndServe returns only with an error, such
\* as an address in use; nothing in it watches stopChan
MetricsServerFails ==
  /\ procs.main \in {"running", "waiting"}
  /\ procs.at["metrics"] = "serving"
  /\ procs' = Done(procs, "metrics")
  /\ UNCHANGED <<clock, frames, seenTokens, sink, tokenQueue, checked, stdout,
                 queued, last, panicked, worker, checks, payload, link>>
  /\ UNCHANGED <<tokenVars, supVars>>

\* main.go lines 97-99: <-sigChan; close(stopChan)
Signal ==
  /\ procs.main = "running"
  /\ procs' = [procs EXCEPT !.stopped = TRUE, !.main = "waiting"]
  /\ UNCHANGED <<clock, frames, seenTokens, sink, tokenQueue, checked, stdout,
                 queued, last, panicked, worker, checks, payload, link>>
  /\ UNCHANGED <<tokenVars, supVars>>

\* main.go lines 101-102: wg.Wait() returns and main ends
MainExits ==
  /\ procs.main = "waiting"
  /\ procs.wg = {}
  /\ procs' = [procs EXCEPT !.main = "exited"]
  /\ UNCHANGED <<clock, frames, seenTokens, sink, tokenQueue, checked, stdout,
                 queued, last, panicked, worker, checks, payload, link>>
  /\ UNCHANGED <<tokenVars, supVars>>

NextMain ==
  \/ MainStarts
  \/ \E g \in Monitors : Works(g)
  \/ \E g \in Monitors : WorkEnds(g)
  \/ \E g \in Monitors : Returns(g)
  \/ MetricsServerFails
  \/ Signal
  \/ MainExits

\* Every monitor comes back to its select and takes the stop branch, and
\* main goes on when it can
SpecMain ==
  /\ InitLag
  /\ [][NextMain]_vars
  /\ \A g \in Monitors : WF_vars(WorkEnds(g)) /\ SF_vars(Returns(g))
  /\ WF_vars(MainStarts)
  /\ WF_vars(MainExits)

\* After the signal the monitors leave the wait group
MonitorsLeaveWaitGroup == procs.stopped ~> (procs.wg \subseteq {"metrics"})

\* C38: after the shutdown signal main's wait on the goroutines it started
\* ends and the process exits: every goroutine of the wait group, the one
\* that runs the metrics server included, returns once stopChan is closed.
C38_WaitCompletesAfterSignal == procs.stopped ~> (procs.main = "exited")

\* ------------------------------------------------------------------------
\* The requests of the Pulse client for Solana carry a chain identifier that
\* getCodexNetworkID maps to Solana's network
PulseSolanaChainSupported ==
  \A q \in queued :
    (q.by = "pulse" /\ NetworkOf(q.token.address) = SolanaNetworkID) =>
      getCodexNetworkID(ChainIDOf(q)) = SolanaNetworkID

\* C39: every request queued by the launchpad client carries a chain
\* identifier that the downstream checks map back to the network of the
\* event, Solana included, so that the Codex check never rejects it as an
\* unsupported chain.
C39_LaunchpadChainMapsBack ==
  \A q \in queued :
    q.by = "launchpad" =>
      getCodexNetworkID(ChainIDOf(q)) = NetworkOf(q.token.address)

\* ========================================================================
\* Part 9: a connection attempt and the goroutines that write to its
\* connection
\*
\* connectAndMonitorGecko (part_001 lines 119-175) starts a reader goroutine
\* directly after the dial; the reader answers the server's pings with a pong
\* (handleGeckoMessage, lines 186-191) while the attempt sleeps two seconds
\* and then writes one subscribe message per pool, 100 ms apart.
\* connectAndMonitorMobula (part_002 lines 120-169) writes its one subscribe
\* message and only then starts the pinger goroutine, which writes a ping
\* every 25 seconds; the attempt only reads from then on.  Both close the
\* connection by a deferred call, Mobula also the pinger's channel pingDone.
\* link follows the attempts of one client, one after the other.
\* ========================================================================
MaxAttempts == 2       \* connection attempts that are followed
MaxWrites == 2         \* writes of helper goroutines that are counted

LinkClients == {"gecko", "mobula"}

Attempts == 1..MaxAttempts

\* The goroutine an attempt of the client starts, and where it waits
HelperOf(c, a) ==
  [id |-> a, at |-> IF c = "gecko" THEN "reading" ELSE "waiting"]

\* The goroutines that are inside conn.WriteJSON on the connection of attempt
\* a: the attempt itself while it subscribes, a reader in its pong, a pinger
\* in its ping
Writers(l, a) ==
  {h \in l.helpers : h.id = a /\ h.at \in {"pong_write", "ping_write"}}
  \cup
  (IF l.attempt = a /\ l.main = "sub_write" THEN {[id |-> a, at |-> "main"]}
                                              ELSE {})

\* The deferred calls of an attempt that returns: close(pingDone) and
\* conn.Close()
AfterReturn_NoDefers(l) == [l EXCEPT !.main = "returned"]

AfterReturn(l) ==
  [l EXCEPT !.main = "returned", !.open = @ \ {l.attempt}]

LinkQuiet ==
  /\ UNCHANGED <<clock, frames, seenTokens, sink, tokenQueue, checked, stdout,
                 queued, last, panicked, worker, checks, payload, procs>>
  /\ UNCHANGED <<tokenVars, supVars>>

\* websocket.DefaultDialer.Dial succeeds.  Gecko starts its reader at once
\* and sleeps; Mobula goes on to write its subscribe message.
Dials(c) ==
  /\ ~link.crashed
  /\ link.main = "returned"
  /\ link.client \in {"none", c}
  /\ link.attempt < MaxAttempts
  /\ link' = [link EXCEPT
                !.client = c,
                !.attempt = @ + 1,
                !.subs = 0,
                !.open = @ \cup {link.attempt + 1},
                !.helpers = IF c = "gecko"
                              THEN @ \cup {HelperOf(c, link.attempt + 1)}
                              ELSE @,
                !.main = IF c = "gecko" THEN "sleeping" ELSE "sub_write"]
  /\ LinkQuiet

\* time.Sleep(2 * time.Second) or time.Sleep(100 * time.Millisecond) of the
\* Gecko attempt ends: the next pool is subscribed, or the select loop begins
AttemptSleepEnds ==
  /\ ~link.crashed
  /\ link.main = "sleeping"
  /\ link' = [link EXCEPT
                !.main = IF link.subs < NumPools THEN "sub_write"
                                                 ELSE "streaming"]
  /\ LinkQuiet

\* conn.WriteJSON(subscribeMsg) of the attempt returns.  Gecko logs an error
\* and goes on; Mobula returns on an error and starts the pinger otherwise.
SubscribeWritten ==
  /\ ~link.crashed
  /\ link.main = "sub_write"
  /\ \/ /\ link.client = "gecko"
        /\ link' = [link EXCEPT !.subs = @ + 1, !.main = "sleeping"]
     \/ /\ link.client = "mobula"
        /\ \/ link' = [link EXCEPT
                         !.subs = 1,
                         !.helpers = @ \cup {HelperOf("mobula", link.attempt)},
                         !.main = "streaming"]
           \/ link' = AfterReturn(link)
  /\ LinkQuiet

\* The select loop of the attempt ends: stopChan, the server closed the
\* connection, a read failed
AttemptReturns ==
  /\ ~link.crashed
  /\ link.main = "streaming"
  /\ link' = AfterReturn(link)
  /\ LinkQuiet

\* The reader's ReadMessage returns a ping of the server, or the pinger's
\* ticker fires: the goroutine calls conn.WriteJSON
HelperWrites(a) ==
  /\ ~link.crashed
  /\ \E h \in link.helpers :
       /\ h.id = a
       /\ h.at \in {"reading", "waiting"}
       /\ h.at = "reading" => a \in link.open
       /\ link' = [link EXCEPT
                     !.helpers = (@ \ {h}) \cup
                       {[h EXCEPT !.at = IF h.at = "reading" THEN "pong_write"
                                                             ELSE "ping_write"]}]
  /\ LinkQuiet

\* conn.WriteJSON of a helper returns.  The reader ignores the result and
\* reads again; the pinger returns when the write failed, as it does on a
\* closed connection.
HelperWriteEnds(a) ==
  /\ ~link.crashed
  /\ \E h \in link.helpers :
       /\ h.id = a
       /\ h.at \in {"pong_write", "ping_write"}
       /\ link' = [link EXCEPT
                     !.writes = IF @ < MaxWrites THEN @ + 1 ELSE @,
                     !.helpers =
                       IF h.at = "ping_write" /\ a \notin link.open
                         THEN @ \ {h}
                         ELSE (@ \ {h}) \cup
                                {[h EXCEPT !.at = IF h.at = "pong_write"
                                                    THEN "reading"
                                                    ELSE "waiting"]}]
  /\ LinkQuiet

\* A helper returns after its attempt has: ReadMessage fails on the closed
\* connection and the reader returns; the pinger's select takes <-pingDone
HelperReturns(a) ==
  /\ ~link.crashed
  /\ a \notin link.open
  /\ \E h \in link.helpers :
       /\ h.id = a
       /\ h.at \in {"reading", "waiting"}
       /\ link' = [link EXCEPT !.helpers = @ \ {h}]
  /\ LinkQuiet

\* The server closes the connection, or a write of the pinger fails, while
\* the attempt still runs: the helper returns before its attempt
HelperFails(a) ==
  /\ ~link.crashed
  /\ a \in link.open
  /\ \E h \in link.helpers :
       /\ h.id = a
       /\ h.at \in {"reading", "ping_write"}
       /\ link' = [link EXCEPT !.helpers = @ \ {h}]
  /\ LinkQuiet

\* Two goroutines are inside a write on one connection.  The connection
\* supports one concurrent writer; with two, the frames may still go out one
\* after the other (the steps above), or the library panics with "concurrent
\* write to websocket connection" and the process ends with every goroutine.
ConcurrentWritePanics ==
  /\ ~link.crashed
  /\ \E a \in Attempts : Cardinality(Writers(link, a)) > 1
  /\ link' = [link EXCEPT !.crashed = TRUE, !.helpers = {}, !.open = {},
                          !.main = "returned"]
  /\ LinkQuiet

NextLink ==
  \/ \E c \in LinkClients : Dials(c)
  \/ AttemptSleepEnds
  \/ SubscribeWritten
  \/ AttemptReturns
  \/ \E a \in Attempts : HelperWrites(a)
  \/ \E a \in Attempts : HelperWriteEnds(a)
  \/ \E a \in Attempts : HelperReturns(a)
  \/ \E a \in Attempts : HelperFails(a)
  \/ ConcurrentWritePanics

\* A goroutine that can run does run: a write returns, and a helper whose
\* attempt has returned gets to its next read or select
SpecLink ==
  /\ InitLag
  /\ [][NextLink]_vars
  /\ \A a \in Attempts :
       WF_vars(HelperWriteEnds(a)) /\ WF_vars(HelperReturns(a))

\* ------------------------------------------------------------------------
\* On a Mobula connection the attempt and its pinger never write together:
\* the pinger starts after the subscribe message is written
MobulaOneWriter ==
  link.client = "mobula" =>
    \A a \in Attempts : Cardinality(Writers(link, a)) <= 1

\* C37: on any one connection at most one goroutine is inside a write: the
\* reader's pong, the pinger's ping and the subscribe messages of the
\* connecting goroutine are never in progress together.
C37_OneWriterPerConnection ==
  \A a \in Attempts : Cardinality(Writers(link, a)) <= 1

\* Attempt a has returned: a later one runs, or it was the last and its
\* function has returned
Returned(a) ==
  \/ a < link.attempt
  \/ a = link.attempt /\ link.main = "returned"

HelpersOf(a) == {h \in link.helpers : h.id = a}

\* C40: an attempt starts at most one helper goroutine, and once the attempt
\* has returned its helper eventually terminates, so that over any number of
\* reconnects the live helpers are those of attempts that have just ended.
C40_HelpersEndWithAttempt ==
  /\ [](\A a \in Attempts : Cardinality(HelpersOf(a)) <= 1)
  /\ \A a \in Attempts : Returned(a) ~> (HelpersOf(a) = {})

\* A second attempt runs with its helper and the helper of the first, whose
\* attempt had returned while it lived, has terminated
C40_Witness ==
  /\ link.attempt = 2
  /\ 2 \in link.open
  /\ HelpersOf(2) # {}
  /\ HelpersOf(1) = {}
  /\ link.writes > 0

====
